---- MODULE Spec2Model ----
(***************************************************************************)
(* Model of scripts/validate-patterns.mts: the rule table, the file        *)
(* walker, the per-file validator, the reporter and main's exit policy.    *)
(* File names, paths and file texts are strings, and the substring and     *)
(* regular-expression tests of the rules are computed on them character    *)
(* by character.                                                           *)
(***************************************************************************)
EXTENDS Integers, Sequences, FiniteSets, TLC

(***************************************************************************)
(* Bounds of the explored inputs.                                          *)
(***************************************************************************)
MaxNodes == 3        \* directory entries in the tree below the registry root
MaxLines == 4        \* lines of text in a file of the single-file runs
MaxDelay == 2        \* largest delay, in ticks, passed to a debounce hook
MaxCalls == 2        \* calls of a debounced function between two runs of its callback
MaxAncestors == 2    \* provider and other elements above the consuming component
MaxFairNodes == 2    \* directory entries in the trees of the fair runs
MaxRuns == 2         \* invocations of the script against one tree

(***************************************************************************)
(* String primitives (String.prototype.includes / endsWith / replace,      *)
(* RegExp.prototype.test for the literal and a.*b shaped patterns used).   *)
(***************************************************************************)
\* positions at which p occurs in s
Occurrences(s, p) ==
  {i \in 1..(Len(s) - Len(p) + 1) : SubSeq(s, i, i + Len(p) - 1) = p}

\* s.includes(p), and /p/.test(s) for a literal p
Includes(s, p) == Occurrences(s, p) # {}

\* s.endsWith(p)
EndsWith(s, p) ==
  Len(s) >= Len(p) /\ SubSeq(s, Len(s) - Len(p) + 1, Len(s)) = p

\* s.replace(p, r) with a string pattern: only the first occurrence
Replace(s, p, r) ==
  IF ~Includes(s, p) THEN s
  ELSE LET i == CHOOSE k \in Occurrences(s, p) :
                   \A m \in Occurrences(s, p) : k <= m
       IN SubSeq(s, 1, i - 1) \o r \o SubSeq(s, i + Len(p), Len(s))

\* positions of line terminators, which "." does not match
LineBreaks(s) == Occurrences(s, "\n") \cup Occurrences(s, "\r")

\* /a.*b/.test(s): a, then b later on the same line
MatchDotStar2(s, a, b) ==
  LET nl == LineBreaks(s)
      ob == Occurrences(s, b)
  IN \E i \in Occurrences(s, a) : \E j \in ob :
        /\ j >= i + Len(a)
        /\ \A k \in nl : k < i \/ k >= j

\* /a.*b.*c/.test(s)
MatchDotStar3(s, a, b, c) ==
  LET nl == LineBreaks(s)
      ob == Occurrences(s, b)
      oc == Occurrences(s, c)
  IN \E i \in Occurrences(s, a) : \E j \in ob : \E l \in oc :
        /\ j >= i + Len(a)
        /\ l >= j + Len(b)
        /\ \A k \in nl : k < i \/ k >= l

\* path.join(dir, name)
PathJoin(dir, name) == dir \o "/" \o name

\* path.basename(p)
Basename(p) ==
  LET sl == Occurrences(p, "/")
  IN IF sl = {} THEN p
     ELSE LET last == CHOOSE k \in sl : \A m \in sl : m <= k
          IN SubSeq(p, last + 1, Len(p))

(***************************************************************************)
(* The rule table.                                                         *)
(***************************************************************************)
\* the list with "button" left out
INTERACTIVE_ELEMENTS_NoButton ==
  <<"input", "select", "textarea", "checkbox", "radio", "switch", "slider",
    "toggle">>

INTERACTIVE_ELEMENTS ==
  <<"button", "input", "select", "textarea", "checkbox", "radio", "switch",
    "slider", "toggle">>

FORM_ELEMENTS == <<"input", "select", "textarea">>

\* list.some((el) => file.includes(el))
SomeIncluded(list, file) == \E k \in 1..Len(list) : Includes(file, list[k])

Check_data_slot(content, file) ==
  IF ~Includes(content, "export") THEN TRUE
  ELSE IF ~SomeIncluded(INTERACTIVE_ELEMENTS, file) THEN TRUE
  ELSE Includes(content, "data-slot=")

\* the rule without its early return for non-interactive files
Check_focus_visible_ring_NoGuard(content, file) ==
  \/ Includes(content, "focus-visible:ring")
  \/ Includes(content, "focus-visible:border-ring")

Check_focus_visible_ring(content, file) ==
  IF ~SomeIncluded(INTERACTIVE_ELEMENTS, file) THEN TRUE
  ELSE \/ Includes(content, "focus-visible:ring")
       \/ Includes(content, "focus-visible:border-ring")

Check_aria_invalid_styling(content, file) ==
  IF ~SomeIncluded(FORM_ELEMENTS, file) THEN TRUE
  ELSE Includes(content, "aria-invalid:")

Check_cva_usage(content, file) ==
  LET hasVariants ==
        \/ Includes(content, "variant:") \/ Includes(content, "variant?")
        \/ Includes(content, "size:") \/ Includes(content, "size?")
  IN IF ~hasVariants THEN TRUE
     ELSE /\ \/ Includes(content, "from 'class-variance-authority'")
             \/ Includes(content, "from \"class-variance-authority\"")
             \/ Includes(content, "from 'class-variance-authority\"")
             \/ Includes(content, "from \"class-variance-authority'")
          /\ Includes(content, "cva(")

Check_typescript_types(content, file) ==
  IF ~EndsWith(file, ".tsx") THEN TRUE
  ELSE LET hasFunction ==
             \/ Includes(content, "function")
             \/ MatchDotStar3(content, "const", "=", "=>")
       IN IF ~hasFunction THEN TRUE
          ELSE \/ MatchDotStar2(content, "interface", "Props")
               \/ MatchDotStar2(content, "type", "Props")

\* the table with cva-usage made blocking
PATTERN_CHECKS_CvaError ==
  << [name |-> "data-slot", severity |-> "error",
      description |-> "All components should have data-slot attribute"],
     [name |-> "focus-visible-ring", severity |-> "error",
      description |-> "Interactive elements should have focus-visible rings"],
     [name |-> "aria-invalid-styling", severity |-> "warning",
      description |-> "Form elements should have aria-invalid styling"],
     [name |-> "cva-usage", severity |-> "error",
      description |-> "Components with variants should use CVA"],
     [name |-> "typescript-types", severity |-> "error",
      description |-> "Components should have proper TypeScript types"] >>

PATTERN_CHECKS ==
  << [name |-> "data-slot", severity |-> "error",
      description |-> "All components should have data-slot attribute"],
     [name |-> "focus-visible-ring", severity |-> "error",
      description |-> "Interactive elements should have focus-visible rings"],
     [name |-> "aria-invalid-styling", severity |-> "warning",
      description |-> "Form elements should have aria-invalid styling"],
     [name |-> "cva-usage", severity |-> "warning",
      description |-> "Components with variants should use CVA"],
     [name |-> "typescript-types", severity |-> "error",
      description |-> "Components should have proper TypeScript types"] >>

\* PATTERN_CHECKS[k].check(content, file)
RunCheck(k, content, file) ==
  CASE k = 1 -> Check_data_slot(content, file)
    [] k = 2 -> Check_focus_visible_ring(content, file)
    [] k = 3 -> Check_aria_invalid_styling(content, file)
    [] k = 4 -> Check_cva_usage(content, file)
    [] k = 5 -> Check_typescript_types(content, file)

(***************************************************************************)
(* The file system the script reads.  A node is a directory entry: a       *)
(* regular file (with its text), a directory (with the entries readdirSync *)
(* lists, in listing order) or something else (a socket, a link).          *)
(* readable = FALSE makes readFileSync / readdirSync throw on the node.    *)
(***************************************************************************)
FileNode(n, c, r) ==
  [name |-> n, kind |-> "file", readable |-> r, content |-> c,
   entries |-> <<>>]

DirNode(n, es, r) ==
  [name |-> n, kind |-> "dir", readable |-> r, content |-> "",
   entries |-> es]

OtherNode(n) ==
  [name |-> n, kind |-> "other", readable |-> TRUE, content |-> "",
   entries |-> <<>>]

\* process.cwd() and the registry path main joins to it
Cwd == "/w"
RegistryPath == PathJoin(Cwd, "apps/v4/registry/new-york-v4/ui")
ReportPath == PathJoin(Cwd, ".pattern-validation-report.json")

VARIABLES
  rootExists,     \* fs.existsSync(registryPath)
  root,           \* the directory node at registryPath
  cwdWritable,    \* whether fs.writeFileSync(reportPath, ..) succeeds
  reportFile,     \* <<report>> stored in the report file, <<>> when absent
  argv,           \* process.argv.slice(2), as a set of flags
  pc,             \* position of main
  componentFiles, \* main's componentFiles
  idx,            \* index of the for-of loop over componentFiles
  allViolations,  \* main's allViolations
  fmt,            \* what formatViolations computed and returned
  tally,          \* main's final errors / warnings counts
  stdout,         \* console.log lines
  stderr,         \* console.error lines
  exitCode,       \* argument of process.exit, NoExit while running
  runNo,          \* number of the current invocation
  prevRun         \* <<what the previous invocation was given and produced>>

\* state of a component that uses one of the debounce hooks
VARIABLES
  mounted,        \* the component is mounted
  value,          \* the value prop of the latest render
  delay,          \* the delay prop of the latest render
  debouncedValue, \* the debouncedValue state, which the hook returns
  isPending,      \* the isPending state of useAdvancedDebounce
  handler,        \* useDebounce: the timer id its effect cleanup holds
  timeoutRef,     \* timeoutRef.current, 0 for undefined
  callbackRef,    \* callbackRef.current
  timers,         \* the armed setTimeout timers that have not run
  calls,          \* arguments of the calls of the debounced function since
                  \* the callback last ran
  invoked,        \* <<what the callback was run with>> once those calls
                  \* were delivered, <<>> before
  elapsed,        \* ticks since the timer was last re-armed, saturating
  previous,       \* the value the hook returned before the latest update;
                  \* useDebouncedCallback: the callback that was current when
                  \* the latest call was made
  cleared,        \* the timers the latest step disarmed with clearTimeout
  lastOp          \* the step taken last

mainVars ==
  <<rootExists, root, cwdWritable, reportFile, argv, pc, componentFiles, idx,
    allViolations, fmt, tally, stdout, stderr, exitCode, runNo, prevRun>>

hookVars ==
  <<mounted, value, delay, debouncedValue, isPending, handler, timeoutRef,
    callbackRef, timers, calls, invoked, elapsed, previous, cleared, lastOp>>

\* state of the context providers, the document root and the spring table
VARIABLES
  ancestors,      \* the provider elements above the consuming component,
                  \* outermost first
  called,         \* per context hook, <<outcome of its latest call>>
  layout,         \* the layout state of the LayoutProvider
  synced,         \* the layouts its sync effect ran for, the latest last (the
                  \* last two are kept)
  classList,      \* document.documentElement.classList
  springs,        \* the SPRINGS object
  springCall,     \* <<the latest call of getSpring / createCustomSpring>>
  springResult    \* <<what that call returned>>

uiVars ==
  <<ancestors, called, layout, synced, classList, springs, springCall,
    springResult>>

\* a call of validateFile with the rule functions' results made explicit
VARIABLES
  ruleOutcome,    \* per rule of the table, what its check does on the file
  ruleResult      \* <<how that call of validateFile ended>>

ruleVars == <<ruleOutcome, ruleResult>>

vars == <<mainVars, hookVars, uiVars, ruleVars>>

\* validateFile is not being observed rule by rule
NoRules ==
  /\ ruleOutcome = <<>>
  /\ ruleResult = <<>>

\* no provider is rendered and no spring function is called
NoUi ==
  /\ ancestors = <<>>
  /\ called = <<>>
  /\ layout = ""
  /\ synced = ""
  /\ classList = {}
  /\ springs = <<>>
  /\ springCall = <<>>
  /\ springResult = <<>>

\* no component is rendered while the script runs
NoHooks ==
  /\ mounted = FALSE
  /\ value = ""
  /\ delay = 0
  /\ debouncedValue = ""
  /\ isPending = FALSE
  /\ handler = 0
  /\ timeoutRef = 0
  /\ callbackRef = ""
  /\ timers = {}
  /\ calls = <<>>
  /\ invoked = <<>>
  /\ elapsed = 0
  /\ previous = ""
  /\ cleared = {}
  /\ lastOp = "none"

\* reportFile and prevRun hold <<>> or a one-element sequence
NoFile == <<>>
NoRun == <<>>
NoExit == -1
NoFmt == [errors |-> <<>>, warnings |-> <<>>, text |-> ""]
NoTally == [errors |-> -1, warnings |-> -1]

(***************************************************************************)
(* findComponentFiles                                                      *)
(***************************************************************************)
RECURSIVE findComponentFiles_AbortOnError(_, _)
\* the walker giving up on the rest of a listing at an unreadable
\* subdirectory
findComponentFiles_AbortOnError(dir, node) ==
  LET RECURSIVE Walk(_, _)
      Walk(k, files) ==
        IF k > Len(node.entries) THEN files
        ELSE LET entry == node.entries[k]
                 fullPath == PathJoin(dir, entry.name)
             IN IF entry.kind = "dir" /\ ~entry.readable THEN files
                ELSE IF entry.kind = "dir"
                THEN Walk(k + 1, files \o
                            findComponentFiles_AbortOnError(fullPath, entry))
                ELSE IF entry.kind = "file" /\ EndsWith(entry.name, ".tsx")
                THEN Walk(k + 1, Append(files, fullPath))
                ELSE Walk(k + 1, files)
  IN IF ~node.readable THEN <<>> ELSE Walk(1, <<>>)

RECURSIVE findComponentFiles_NoExtensionFilter(_, _)
\* the walker returning every regular file, whatever its extension
findComponentFiles_NoExtensionFilter(dir, node) ==
  LET RECURSIVE Walk(_, _)
      Walk(k, files) ==
        IF k > Len(node.entries) THEN files
        ELSE LET entry == node.entries[k]
                 fullPath == PathJoin(dir, entry.name)
             IN IF entry.kind = "dir"
                THEN Walk(k + 1, files \o
                            findComponentFiles_NoExtensionFilter(fullPath, entry))
                ELSE IF entry.kind = "file"
                THEN Walk(k + 1, Append(files, fullPath))
                ELSE Walk(k + 1, files)
  IN IF ~node.readable THEN <<>> ELSE Walk(1, <<>>)

RECURSIVE findComponentFiles(_, _)
\* dir is the path, node the directory found there
findComponentFiles(dir, node) ==
  LET RECURSIVE Walk(_, _)
      Walk(k, files) ==
        IF k > Len(node.entries) THEN files
        ELSE LET entry == node.entries[k]
                 fullPath == PathJoin(dir, entry.name)
             IN IF entry.kind = "dir"
                THEN Walk(k + 1, files \o findComponentFiles(fullPath, entry))
                ELSE IF entry.kind = "file" /\ EndsWith(entry.name, ".tsx")
                THEN Walk(k + 1, Append(files, fullPath))
                ELSE Walk(k + 1, files)
  IN IF ~node.readable THEN <<>> ELSE Walk(1, <<>>)

RECURSIVE findComponentFilesLog(_, _)
\* the console.error lines findComponentFiles(dir) writes, in order
findComponentFilesLog(dir, node) ==
  LET RECURSIVE Walk(_, _)
      Walk(k, log) ==
        IF k > Len(node.entries) THEN log
        ELSE LET entry == node.entries[k]
             IN IF entry.kind = "dir"
                THEN Walk(k + 1, log \o findComponentFilesLog(
                                          PathJoin(dir, entry.name), entry))
                ELSE Walk(k + 1, log)
  IN IF ~node.readable THEN <<"Error reading directory " \o dir \o ":">>
     ELSE Walk(1, <<>>)

RECURSIVE NodeAt(_, _, _)
\* the node a path below dir names (path resolution of the file system)
NodeAt(dir, node, p) ==
  LET hit == {k \in 1..Len(node.entries) :
                \/ PathJoin(dir, node.entries[k].name) = p
                \/ /\ node.entries[k].kind = "dir"
                   /\ Len(p) > Len(PathJoin(dir, node.entries[k].name))
                   /\ SubSeq(p, 1, Len(PathJoin(dir, node.entries[k].name)) + 1)
                        = PathJoin(dir, node.entries[k].name) \o "/"}
      k == CHOOSE h \in hit : TRUE
  IN IF PathJoin(dir, node.entries[k].name) = p THEN node.entries[k]
     ELSE NodeAt(PathJoin(dir, node.entries[k].name), node.entries[k], p)

(***************************************************************************)
(* validateFile                                                            *)
(***************************************************************************)
\* fs.readFileSync(filePath, "utf-8") throws
ReadFails(fsroot, filePath) == ~NodeAt(RegistryPath, fsroot, filePath).readable

\* validateFile without the skip of files that export nothing
validateFile_NoExportSkip(fsroot, filePath) ==
  IF ReadFails(fsroot, filePath) THEN <<>>
  ELSE LET content == NodeAt(RegistryPath, fsroot, filePath).content
           fileName == Basename(filePath)
           componentName == Replace(fileName, ".tsx", "")
           RECURSIVE Loop(_, _)
           Loop(k, violations) ==
             IF k > Len(PATTERN_CHECKS) THEN violations
             ELSE IF ~RunCheck(k, content, fileName)
             THEN Loop(k + 1, Append(violations,
                    [file |-> fileName,
                     component |-> componentName,
                     pattern |-> PATTERN_CHECKS[k].name,
                     message |-> PATTERN_CHECKS[k].description,
                     severity |-> PATTERN_CHECKS[k].severity]))
             ELSE Loop(k + 1, violations)
       IN Loop(1, <<>>)

validateFile(fsroot, filePath) ==
  IF ReadFails(fsroot, filePath) THEN <<>>
  ELSE LET content == NodeAt(RegistryPath, fsroot, filePath).content
           fileName == Basename(filePath)
           componentName == Replace(fileName, ".tsx", "")
           RECURSIVE Loop(_, _)
           Loop(k, violations) ==
             IF k > Len(PATTERN_CHECKS) THEN violations
             ELSE IF ~RunCheck(k, content, fileName)
             THEN Loop(k + 1, Append(violations,
                    [file |-> fileName,
                     component |-> componentName,
                     pattern |-> PATTERN_CHECKS[k].name,
                     message |-> PATTERN_CHECKS[k].description,
                     severity |-> PATTERN_CHECKS[k].severity]))
             ELSE Loop(k + 1, violations)
       IN IF ~Includes(content, "export") THEN <<>> ELSE Loop(1, <<>>)

\* the console.error lines validateFile(filePath) writes
validateFileLog(fsroot, filePath) ==
  IF ReadFails(fsroot, filePath)
  THEN <<"Error validating " \o filePath \o ":">>
  ELSE <<>>

(***************************************************************************)
(* formatViolations and generateReport                                     *)
(***************************************************************************)
\* violations.filter((v) => v.severity === sev)
FilterSeverity(violations, sev) ==
  SelectSeq(violations, LAMBDA v : v.severity = sev)

RECURSIVE RenderGroup(_, _)
\* group.forEach((v) => output += ...), from element k on
RenderGroup(group, k) ==
  IF k > Len(group) THEN ""
  ELSE "  " \o group[k].file \o "\n"
       \o "    " \o group[k].pattern \o ": " \o group[k].message \o "\n\n"
       \o RenderGroup(group, k + 1)

\* formatViolations with the error filter pasted for the warnings too
formatViolations_BothErrors(violations) ==
  IF Len(violations) = 0
  THEN [errors |-> <<>>, warnings |-> <<>>, text |-> "No violations found!"]
  ELSE LET errors == FilterSeverity(violations, "error")
           warnings == FilterSeverity(violations, "error")
       IN [errors |-> errors,
           warnings |-> warnings,
           text |->
             (IF Len(errors) > 0
              THEN "Errors:\n\n" \o RenderGroup(errors, 1) ELSE "")
             \o (IF Len(warnings) > 0
                 THEN "Warnings:\n\n" \o RenderGroup(warnings, 1) ELSE "")
             \o "\nTotal: " \o ToString(Len(errors)) \o " error(s), "
             \o ToString(Len(warnings)) \o " warning(s)\n"]

\* formatViolations rendering the warnings group before the errors group
formatViolations_WarningsFirst(violations) ==
  IF Len(violations) = 0
  THEN [errors |-> <<>>, warnings |-> <<>>, text |-> "No violations found!"]
  ELSE LET errors == FilterSeverity(violations, "error")
           warnings == FilterSeverity(violations, "warning")
       IN [errors |-> errors,
           warnings |-> warnings,
           text |->
             (IF Len(warnings) > 0
              THEN "Warnings:\n\n" \o RenderGroup(warnings, 1) ELSE "")
             \o (IF Len(errors) > 0
                 THEN "Errors:\n\n" \o RenderGroup(errors, 1) ELSE "")
             \o "\nTotal: " \o ToString(Len(errors)) \o " error(s), "
             \o ToString(Len(warnings)) \o " warning(s)\n"]

formatViolations(violations) ==
  IF Len(violations) = 0
  THEN [errors |-> <<>>, warnings |-> <<>>, text |-> "No violations found!"]
  ELSE LET errors == FilterSeverity(violations, "error")
           warnings == FilterSeverity(violations, "warning")
       IN [errors |-> errors,
           warnings |-> warnings,
           text |->
             (IF Len(errors) > 0
              THEN "Errors:\n\n" \o RenderGroup(errors, 1) ELSE "")
             \o (IF Len(warnings) > 0
                 THEN "Warnings:\n\n" \o RenderGroup(warnings, 1) ELSE "")
             \o "\nTotal: " \o ToString(Len(errors)) \o " error(s), "
             \o ToString(Len(warnings)) \o " warning(s)\n"]

\* generateReport counting every violation as an error
generateReport_ErrorsAsTotal(violations, now) ==
  [timestamp |-> now,
   totalViolations |-> Len(violations),
   errors |-> Len(violations),
   warnings |-> Len(FilterSeverity(violations, "warning")),
   violations |-> violations]

\* the object generateReport serialises; now is new Date()
generateReport(violations, now) ==
  [timestamp |-> now,
   totalViolations |-> Len(violations),
   errors |-> Len(FilterSeverity(violations, "error")),
   warnings |-> Len(FilterSeverity(violations, "warning")),
   violations |-> violations]

(***************************************************************************)
(* main, one action per stretch of straight-line code.                     *)
(***************************************************************************)
\* Main_Start logging the missing registry path without exiting
Main_Start_NoExit ==
  /\ pc = "start"
  /\ stdout' = Append(stdout, "Validating component patterns...\n")
  /\ IF ~rootExists
     THEN stderr' = Append(stderr, "Registry path not found: " \o RegistryPath)
     ELSE UNCHANGED stderr
  /\ pc' = "find"
  /\ UNCHANGED <<rootExists, root, cwdWritable, reportFile, argv,
                 componentFiles, idx, allViolations, fmt, tally, exitCode,
                 runNo, prevRun>>
  /\ UNCHANGED hookVars
  /\ UNCHANGED uiVars
  /\ UNCHANGED ruleVars

\* lines 241-256: read the flags, announce, check the registry path
Main_Start ==
  /\ pc = "start"
  /\ stdout' = Append(stdout, "Validating component patterns...\n")
  /\ IF ~rootExists
     THEN /\ stderr' = Append(stderr,
                          "Registry path not found: " \o RegistryPath)
          /\ exitCode' = 1
          /\ pc' = "exited"
     ELSE /\ pc' = "find"
          /\ UNCHANGED <<stderr, exitCode>>
  /\ UNCHANGED <<rootExists, root, cwdWritable, reportFile, argv,
                 componentFiles, idx, allViolations, fmt, tally, runNo,
                 prevRun>>
  /\ UNCHANGED hookVars
  /\ UNCHANGED uiVars
  /\ UNCHANGED ruleVars

\* Main_Find starting from the violations of the report file on disk
Main_Find_MergeReport ==
  /\ pc = "find"
  /\ componentFiles' = findComponentFiles(RegistryPath, root)
  /\ stderr' = stderr \o findComponentFilesLog(RegistryPath, root)
  /\ stdout' = Append(stdout, "Found " \o ToString(Len(componentFiles'))
                                \o " component files\n")
  /\ allViolations' = (IF reportFile = NoFile THEN <<>>
                       ELSE reportFile[1].violations)
  /\ idx' = 1
  /\ pc' = "validate"
  /\ UNCHANGED <<rootExists, root, cwdWritable, reportFile, argv, fmt, tally,
                 exitCode, runNo, prevRun>>
  /\ UNCHANGED hookVars
  /\ UNCHANGED uiVars
  /\ UNCHANGED ruleVars

\* lines 258-263: enumerate the component files
Main_Find ==
  /\ pc = "find"
  /\ componentFiles' = findComponentFiles(RegistryPath, root)
  /\ stderr' = stderr \o findComponentFilesLog(RegistryPath, root)
  /\ stdout' = Append(stdout, "Found " \o ToString(Len(componentFiles'))
                                \o " component files\n")
  /\ allViolations' = <<>>
  /\ idx' = 1
  /\ pc' = "validate"
  /\ UNCHANGED <<rootExists, root, cwdWritable, reportFile, argv, fmt, tally,
                 exitCode, runNo, prevRun>>
  /\ UNCHANGED hookVars
  /\ UNCHANGED uiVars
  /\ UNCHANGED ruleVars

\* the loop body dropping violations that are already collected
Main_Validate_Dedupe ==
  /\ pc = "validate"
  /\ idx <= Len(componentFiles)
  /\ allViolations' =
       allViolations \o
       SelectSeq(validateFile(root, componentFiles[idx]),
                 LAMBDA v : \A i \in 1..Len(allViolations) :
                               allViolations[i] # v)
  /\ stderr' = stderr \o validateFileLog(root, componentFiles[idx])
  /\ idx' = idx + 1
  /\ UNCHANGED <<rootExists, root, cwdWritable, reportFile, argv, pc,
                 componentFiles, fmt, tally, stdout, exitCode, runNo, prevRun>>
  /\ UNCHANGED hookVars
  /\ UNCHANGED uiVars
  /\ UNCHANGED ruleVars

\* the loop body with validateFile letting a read error escape
Main_Validate_Rethrow ==
  /\ pc = "validate"
  /\ idx <= Len(componentFiles)
  /\ IF ReadFails(root, componentFiles[idx])
     THEN /\ pc' = "rejected"
          /\ UNCHANGED <<allViolations, stderr, idx>>
     ELSE /\ allViolations' =
               allViolations \o validateFile(root, componentFiles[idx])
          /\ stderr' = stderr
          /\ idx' = idx + 1
          /\ pc' = pc
  /\ UNCHANGED <<rootExists, root, cwdWritable, reportFile, argv,
                 componentFiles, fmt, tally, stdout, exitCode, runNo, prevRun>>
  /\ UNCHANGED hookVars
  /\ UNCHANGED uiVars
  /\ UNCHANGED ruleVars

\* lines 265-268: one iteration of the loop over componentFiles
Main_Validate ==
  /\ pc = "validate"
  /\ idx <= Len(componentFiles)
  /\ allViolations' = allViolations \o validateFile(root, componentFiles[idx])
  /\ stderr' = stderr \o validateFileLog(root, componentFiles[idx])
  /\ idx' = idx + 1
  /\ UNCHANGED <<rootExists, root, cwdWritable, reportFile, argv, pc,
                 componentFiles, fmt, tally, stdout, exitCode, runNo, prevRun>>
  /\ UNCHANGED hookVars
  /\ UNCHANGED uiVars
  /\ UNCHANGED ruleVars

\* lines 270-272: format and print the results
Main_Format ==
  /\ pc = "validate"
  /\ idx > Len(componentFiles)
  /\ fmt' = formatViolations(allViolations)
  /\ stdout' = Append(stdout, fmt'.text)
  /\ pc' = "report"
  /\ UNCHANGED <<rootExists, root, cwdWritable, reportFile, argv,
                 componentFiles, idx, allViolations, tally, stderr, exitCode,
                 runNo, prevRun>>
  /\ UNCHANGED hookVars
  /\ UNCHANGED uiVars
  /\ UNCHANGED ruleVars

\* Main_Report writing the report only for runs without blocking violations
Main_Report_OnlyOnSuccess ==
  /\ pc = "report"
  /\ IF "--report" \in argv /\ FilterSeverity(allViolations, "error") = <<>>
     THEN IF cwdWritable
          THEN /\ reportFile' = <<generateReport(allViolations, runNo)>>
               /\ stdout' = Append(stdout, "\nReport saved to: " \o ReportPath)
               /\ pc' = "summary"
          ELSE /\ pc' = "rejected"
               /\ UNCHANGED <<reportFile, stdout>>
     ELSE /\ pc' = "summary"
          /\ UNCHANGED <<reportFile, stdout>>
  /\ UNCHANGED <<rootExists, root, cwdWritable, argv, componentFiles, idx,
                 allViolations, fmt, tally, stderr, exitCode, runNo, prevRun>>
  /\ UNCHANGED hookVars
  /\ UNCHANGED uiVars
  /\ UNCHANGED ruleVars

\* lines 274-277: write the report when --report was passed; a failing
\* writeFileSync rejects main's promise
Main_Report ==
  /\ pc = "report"
  /\ IF "--report" \in argv
     THEN IF cwdWritable
          THEN /\ reportFile' = <<generateReport(allViolations, runNo)>>
               /\ stdout' = Append(stdout, "\nReport saved to: " \o ReportPath)
               /\ pc' = "summary"
          ELSE /\ pc' = "rejected"
               /\ UNCHANGED <<reportFile, stdout>>
     ELSE /\ pc' = "summary"
          /\ UNCHANGED <<reportFile, stdout>>
  /\ UNCHANGED <<rootExists, root, cwdWritable, argv, componentFiles, idx,
                 allViolations, fmt, tally, stderr, exitCode, runNo, prevRun>>
  /\ UNCHANGED hookVars
  /\ UNCHANGED uiVars
  /\ UNCHANGED ruleVars

\* the summary failing the run on warnings as well
Main_Summary_ExitOnWarnings ==
  /\ pc = "summary"
  /\ LET errors == Len(FilterSeverity(allViolations, "error"))
         warnings == Len(FilterSeverity(allViolations, "warning"))
     IN /\ tally' = [errors |-> errors, warnings |-> warnings]
        /\ IF errors = 0 /\ warnings = 0
           THEN /\ stdout' = Append(stdout,
                     "All components follow mino design patterns!")
                /\ exitCode' = 0
           ELSE /\ stdout' = Append(stdout,
                     "\nTip: Review the MINO_DESIGN_PATTERNS_REFERENCE.md for guidance")
                /\ exitCode' = 1
  /\ pc' = "exited"
  /\ UNCHANGED <<rootExists, root, cwdWritable, reportFile, argv,
                 componentFiles, idx, allViolations, fmt, stderr, runNo,
                 prevRun>>
  /\ UNCHANGED hookVars
  /\ UNCHANGED uiVars
  /\ UNCHANGED ruleVars

\* the summary treating blocking violations as repaired when --fix is passed
Main_Summary_FixPasses ==
  /\ pc = "summary"
  /\ LET errors == IF "--fix" \in argv THEN 0
                   ELSE Len(FilterSeverity(allViolations, "error"))
         warnings == Len(FilterSeverity(allViolations, "warning"))
     IN /\ tally' = [errors |-> errors, warnings |-> warnings]
        /\ IF errors = 0 /\ warnings = 0
           THEN /\ stdout' = Append(stdout,
                     "All components follow mino design patterns!")
                /\ exitCode' = 0
           ELSE IF errors > 0
           THEN /\ stdout' = Append(stdout,
                     "\nTip: Review the MINO_DESIGN_PATTERNS_REFERENCE.md for guidance")
                /\ exitCode' = 1
           ELSE /\ stdout' = Append(stdout,
                     "\nNo errors, but please review warnings")
                /\ exitCode' = 0
  /\ pc' = "exited"
  /\ UNCHANGED <<rootExists, root, cwdWritable, reportFile, argv,
                 componentFiles, idx, allViolations, fmt, stderr, runNo,
                 prevRun>>
  /\ UNCHANGED hookVars
  /\ UNCHANGED uiVars
  /\ UNCHANGED ruleVars

\* lines 279-296: count by severity and exit
Main_Summary ==
  /\ pc = "summary"
  /\ LET errors == Len(FilterSeverity(allViolations, "error"))
         warnings == Len(FilterSeverity(allViolations, "warning"))
     IN /\ tally' = [errors |-> errors, warnings |-> warnings]
        /\ IF errors = 0 /\ warnings = 0
           THEN /\ stdout' = Append(stdout,
                     "All components follow mino design patterns!")
                /\ exitCode' = 0
           ELSE IF errors > 0
           THEN /\ stdout' = Append(stdout,
                     "\nTip: Review the MINO_DESIGN_PATTERNS_REFERENCE.md for guidance")
                /\ exitCode' = 1
           ELSE /\ stdout' = Append(stdout,
                     "\nNo errors, but please review warnings")
                /\ exitCode' = 0
  /\ pc' = "exited"
  /\ UNCHANGED <<rootExists, root, cwdWritable, reportFile, argv,
                 componentFiles, idx, allViolations, fmt, stderr, runNo,
                 prevRun>>
  /\ UNCHANGED hookVars
  /\ UNCHANGED uiVars
  /\ UNCHANGED ruleVars

\* main().catch logging the error and exiting with 0
Main_Catch_ExitZero ==
  /\ pc = "rejected"
  /\ stderr' = Append(stderr, "Fatal error:")
  /\ exitCode' = 0
  /\ pc' = "exited"
  /\ UNCHANGED <<rootExists, root, cwdWritable, reportFile, argv,
                 componentFiles, idx, allViolations, fmt, tally, stdout,
                 runNo, prevRun>>
  /\ UNCHANGED hookVars
  /\ UNCHANGED uiVars
  /\ UNCHANGED ruleVars

\* lines 298-301: main().catch
Main_Catch ==
  /\ pc = "rejected"
  /\ stderr' = Append(stderr, "Fatal error:")
  /\ exitCode' = 1
  /\ pc' = "exited"
  /\ UNCHANGED <<rootExists, root, cwdWritable, reportFile, argv,
                 componentFiles, idx, allViolations, fmt, tally, stdout,
                 runNo, prevRun>>
  /\ UNCHANGED hookVars
  /\ UNCHANGED uiVars
  /\ UNCHANGED ruleVars

\* the script is invoked again, in a new process, on the same file system
Rerun ==
  /\ pc = "exited"
  /\ runNo < MaxRuns
  /\ runNo' = runNo + 1
  /\ prevRun' = <<[report |-> "--report" \in argv,
                    fix |-> "--fix" \in argv,
                    violations |-> allViolations,
                    stdout |-> stdout, stderr |-> stderr,
                    exitCode |-> exitCode]>>
  /\ \E a \in SUBSET {"--report", "--fix"} : argv' = a
  /\ pc' = "start"
  /\ componentFiles' = <<>>
  /\ idx' = 0
  /\ allViolations' = <<>>
  /\ fmt' = NoFmt
  /\ tally' = NoTally
  /\ stdout' = <<>>
  /\ stderr' = <<>>
  /\ exitCode' = NoExit
  /\ UNCHANGED <<rootExists, root, cwdWritable, reportFile>>
  /\ UNCHANGED hookVars
  /\ UNCHANGED uiVars
  /\ UNCHANGED ruleVars

MainStep ==
  \/ Main_Start
  \/ Main_Find
  \/ Main_Validate
  \/ Main_Format
  \/ Main_Report
  \/ Main_Summary
  \/ Main_Catch

(***************************************************************************)
(* The explored inputs.                                                    *)
(***************************************************************************)
\* entries of the multi-file trees that are not directories
LeafNodes ==
  { FileNode("button.tsx", "export function B(){}", TRUE),
    FileNode("button.tsx", "", FALSE),
    FileNode("input.tsx",
             "export const i = 1\ndata-slot=\"i\" focus-visible:ring-2", TRUE),
    FileNode("notes.md", "export function N(){}", TRUE),
    OtherNode("link.tsx") }

RECURSIVE NodeSize(_), ListingSize(_)
\* number of directory entries in the subtree of a node, the node included
NodeSize(node) == 1 + ListingSize(node.entries)

ListingSize(es) ==
  IF es = <<>> THEN 0 ELSE NodeSize(Head(es)) + ListingSize(Tail(es))

RECURSIVE NodesUpTo(_), ListingsUpTo(_)
\* the nodes whose subtree holds at most n entries (n >= 1)
NodesUpTo(n) ==
  LeafNodes
  \cup {DirNode("sub", es, r) : es \in ListingsUpTo(n - 1), r \in BOOLEAN}

\* the directory listings that hold at most n entries in all, subtrees
\* included; a listing never holds one name twice
ListingsUpTo(n) ==
  IF n = 0 THEN {<<>>}
  ELSE LET nodes == NodesUpTo(n)
       IN {<<>>} \cup
          UNION { LET rests == ListingsUpTo(n - k)
                  IN UNION { {<<t>> \o r :
                                r \in {q \in rests :
                                         \A i \in 1..Len(q) :
                                            q[i].name # t.name}} :
                             t \in {u \in nodes : NodeSize(u) = k} } :
                  k \in 1..n }

Roots ==
  {DirNode("ui", es, TRUE) : es \in ListingsUpTo(MaxNodes)}
  \cup {DirNode("ui", <<>>, FALSE)}

\* process.argv.slice(2) of the first of the multi-file runs, of every
\* other run
ReportArgSets == {{}, {"--report"}}
ArgSets == SUBSET {"--report", "--fix"}

\* a report left behind by an earlier invocation
StaleReport ==
  [timestamp |-> 0, totalViolations |-> 0, errors |-> 0, warnings |-> 0,
   violations |-> <<>>]

InitProcess ==
  /\ pc = "start"
  /\ componentFiles = <<>>
  /\ idx = 0
  /\ allViolations = <<>>
  /\ fmt = NoFmt
  /\ tally = NoTally
  /\ stdout = <<>>
  /\ stderr = <<>>
  /\ exitCode = NoExit
  /\ runNo = 1
  /\ prevRun = NoRun

Init ==
  /\ rootExists \in BOOLEAN
  /\ root \in (IF rootExists THEN Roots ELSE {DirNode("ui", <<>>, FALSE)})
  /\ cwdWritable \in BOOLEAN
  /\ reportFile = NoFile
  /\ argv \in ReportArgSets
  /\ InitProcess
  /\ NoHooks
  /\ NoUi
  /\ NoRules

Next == MainStep \/ Rerun

Spec == Init /\ [][Next]_vars

\* one invocation over a small tree, with any choice of --report
InitRun ==
  /\ rootExists \in BOOLEAN
  /\ root \in (IF rootExists
               THEN {DirNode("ui", es, TRUE) : es \in ListingsUpTo(MaxFairNodes)}
               ELSE {DirNode("ui", <<>>, FALSE)})
  /\ cwdWritable \in BOOLEAN
  /\ reportFile = NoFile
  /\ argv \in ReportArgSets
  /\ InitProcess
  /\ NoHooks
  /\ NoUi
  /\ NoRules

\* node runs main to its process.exit: no step of main waits on anything
SpecRunFair == InitRun /\ [][MainStep]_vars /\ WF_vars(MainStep)

(***************************************************************************)
(* Single-file runs: one file in the registry root, its text any choice of *)
(* at most MaxLines of the lines below.                                    *)
(***************************************************************************)
SourceLines ==
  << "export function B(){}",
     "export const b = () => 1",
     "function b(){}",
     "interface BProps {}",
     "data-slot=\"b\"",
     "focus-visible:ring-2",
     "focus-visible:border-ring",
     "aria-invalid:ring-1",
     "variant?: string",
     "from \"class-variance-authority\" cva(" >>

RECURSIVE JoinLines(_, _)
\* the lines numbered in picked, from line k on, each ended by a newline
JoinLines(picked, k) ==
  IF k > Len(SourceLines) THEN ""
  ELSE (IF k \in picked THEN SourceLines[k] \o "\n" ELSE "")
       \o JoinLines(picked, k + 1)

Texts ==
  {JoinLines(picked, 1) :
     picked \in {q \in SUBSET (1..Len(SourceLines)) : Cardinality(q) <= MaxLines}}

FileNames == {"button.tsx", "card.tsx", "input.tsx"}

InitFile ==
  /\ rootExists \in BOOLEAN
  /\ root \in (IF rootExists
               THEN {DirNode("ui", <<FileNode(n, t, TRUE)>>, TRUE) :
                       n \in FileNames, t \in Texts}
               ELSE {DirNode("ui", <<>>, FALSE)})
  /\ argv \in ArgSets
  /\ cwdWritable \in (IF "--report" \in argv THEN BOOLEAN ELSE {TRUE})
  /\ reportFile \in {NoFile, <<StaleReport>>}
  /\ InitProcess
  /\ NoHooks
  /\ NoUi
  /\ NoRules

NextFile == MainStep

SpecFile == InitFile /\ [][NextFile]_vars

(***************************************************************************)
(* Debounce hooks.  A render with its effects is one step, and so is a     *)
(* timer callback with the render its state update causes.  Time passes in *)
(* ticks; a timer may run once its delay has run down, not before.         *)
(***************************************************************************)
Values == {"a", "b", "c"}

Delays == 0..MaxDelay

Callbacks == {"f", "g"}

\* the script is not running while a component is rendered
MainIdle ==
  /\ rootExists = FALSE
  /\ root = DirNode("ui", <<>>, FALSE)
  /\ cwdWritable = TRUE
  /\ reportFile = NoFile
  /\ argv = {}
  /\ InitProcess

\* setTimeout(() => .. captured .., d), returning id
setTimeout(ts, id, captured, d) ==
  ts \cup {[id |-> id, left |-> d, delay |-> d, captured |-> captured]}

\* clearTimeout(id); ids of timers that ran or were cleared match nothing
clearTimeout(ts, id) == {t \in ts : t.id # id}

\* the id setTimeout returns: the least one no armed timer and no held
\* handle carries
FreshId(ts, held) ==
  LET used == {t.id : t \in ts} \cup held
      ids == 1..(Cardinality(used) + 1)
  IN CHOOSE i \in ids : i \notin used /\ \A j \in ids : j \notin used => i <= j

\* one tick of time passes
Tick ==
  /\ timers' = {[t EXCEPT !.left = IF t.left > 0 THEN t.left - 1 ELSE 0] :
                  t \in timers}
  /\ elapsed' = (IF elapsed < MaxDelay THEN elapsed + 1 ELSE MaxDelay)
  /\ cleared' = {}
  /\ lastOp' = "tick"
  /\ UNCHANGED <<mainVars, uiVars, ruleVars, mounted, value, delay, debouncedValue, isPending,
                 handler, timeoutRef, callbackRef, calls, invoked, previous>>

(***************************************************************************)
(* useDebounce                                                             *)
(***************************************************************************)
\* after the first render and its effect
InitDebounce ==
  /\ MainIdle
  /\ NoUi
  /\ NoRules
  /\ mounted = TRUE
  /\ value \in Values
  /\ delay \in Delays
  /\ debouncedValue = value
  /\ handler = 1
  /\ timers = setTimeout({}, 1, value, delay)
  /\ isPending = FALSE
  /\ timeoutRef = 0
  /\ callbackRef = ""
  /\ calls = <<>>
  /\ invoked = <<>>
  /\ elapsed = 0
  /\ previous = value
  /\ cleared = {}
  /\ lastOp = "mount"

\* a render whose effect arms the new timer and leaves the old one armed
UseDebounce_Render_NoCleanup(v, d) ==
  /\ mounted
  /\ value' = v
  /\ delay' = d
  /\ IF v # value \/ d # delay
     THEN LET id == FreshId(timers, {handler})
          IN /\ timers' = setTimeout(timers, id, v, d)
             /\ handler' = id
             /\ cleared' = {}
             /\ elapsed' = 0
     ELSE /\ cleared' = {}
          /\ UNCHANGED <<timers, handler, elapsed>>
  /\ lastOp' = "render"
  /\ UNCHANGED <<mainVars, uiVars, ruleVars, mounted, debouncedValue, isPending, timeoutRef,
                 callbackRef, calls, invoked, previous>>

\* a render whose effect arms no timer when the delay is 0
UseDebounce_Render_SkipZero(v, d) ==
  /\ mounted
  /\ value' = v
  /\ delay' = d
  /\ IF v # value \/ d # delay
     THEN LET kept == clearTimeout(timers, handler)
              id == FreshId(kept, {handler})
          IN /\ timers' = (IF d = 0 THEN kept
                           ELSE setTimeout(kept, id, v, d))
             /\ handler' = id
             /\ cleared' = timers \ kept
             /\ elapsed' = 0
     ELSE /\ cleared' = {}
          /\ UNCHANGED <<timers, handler, elapsed>>
  /\ lastOp' = "render"
  /\ UNCHANGED <<mainVars, uiVars, ruleVars, mounted, debouncedValue,
                 isPending, timeoutRef, callbackRef, calls, invoked, previous>>

\* lines 73-90: a render with props (v, d); when value or delay changed,
\* the cleanup of the previous effect runs and then the effect
UseDebounce_Render(v, d) ==
  /\ mounted
  /\ value' = v
  /\ delay' = d
  /\ IF v # value \/ d # delay
     THEN LET kept == clearTimeout(timers, handler)
              id == FreshId(kept, {handler})
          IN /\ timers' = setTimeout(kept, id, v, d)
             /\ handler' = id
             /\ cleared' = timers \ kept
             /\ elapsed' = 0
     ELSE /\ cleared' = {}
          /\ UNCHANGED <<timers, handler, elapsed>>
  /\ lastOp' = "render"
  /\ UNCHANGED <<mainVars, uiVars, ruleVars, mounted, debouncedValue, isPending, timeoutRef,
                 callbackRef, calls, invoked, previous>>

\* lines 77-79: the timer callback, setDebouncedValue(value)
UseDebounce_Timeout ==
  /\ \E t \in timers :
       /\ t.left = 0
       /\ timers' = timers \ {t}
       /\ IF mounted
          THEN /\ debouncedValue' = t.captured
               /\ previous' = (IF t.captured # debouncedValue
                               THEN debouncedValue ELSE previous)
          ELSE UNCHANGED <<debouncedValue, previous>>
  /\ cleared' = {}
  /\ lastOp' = "timeout"
  /\ UNCHANGED <<mainVars, uiVars, ruleVars, mounted, value, delay, isPending, handler,
                 timeoutRef, callbackRef, calls, invoked, elapsed>>

\* unmounting without the cleanup of the last effect
UseDebounce_Unmount_NoCleanup ==
  /\ mounted
  /\ mounted' = FALSE
  /\ cleared' = {}
  /\ lastOp' = "unmount"
  /\ UNCHANGED <<mainVars, uiVars, ruleVars, value, delay, debouncedValue,
                 isPending, handler, timers, timeoutRef, callbackRef, calls,
                 invoked, elapsed, previous>>

\* lines 84-86: unmounting runs the cleanup of the last effect
UseDebounce_Unmount ==
  /\ mounted
  /\ mounted' = FALSE
  /\ timers' = clearTimeout(timers, handler)
  /\ cleared' = timers \ timers'
  /\ lastOp' = "unmount"
  /\ UNCHANGED <<mainVars, uiVars, ruleVars, value, delay, debouncedValue, isPending, handler,
                 timeoutRef, callbackRef, calls, invoked, elapsed, previous>>

NextDebounce ==
  \/ \E v \in Values, d \in Delays : UseDebounce_Render(v, d)
  \/ UseDebounce_Timeout
  \/ UseDebounce_Unmount
  \/ Tick

SpecDebounce == InitDebounce /\ [][NextDebounce]_vars

\* time passes and the event loop runs every timer that is due
SpecDebounceFair ==
  SpecDebounce /\ WF_vars(Tick) /\ WF_vars(UseDebounce_Timeout)

(***************************************************************************)
(* useAdvancedDebounce                                                     *)
(***************************************************************************)
\* after the first render and its effect, which has set isPending
InitAdvanced ==
  /\ MainIdle
  /\ NoUi
  /\ NoRules
  /\ mounted = TRUE
  /\ value \in Values
  /\ delay \in Delays
  /\ debouncedValue = value
  /\ isPending = TRUE
  /\ timeoutRef = 1
  /\ timers = setTimeout({}, 1, value, delay)
  /\ handler = 0
  /\ callbackRef = ""
  /\ calls = <<>>
  /\ invoked = <<>>
  /\ elapsed = 0
  /\ previous = value
  /\ cleared = {}
  /\ lastOp = "mount"

\* lines 148-161: a render with props (v, d); when value or delay changed,
\* the cleanup of the previous effect runs and then the effect
UseAdvancedDebounce_Render(v, d) ==
  /\ mounted
  /\ value' = v
  /\ delay' = d
  /\ IF v # value \/ d # delay
     THEN LET kept == IF timeoutRef # 0 THEN clearTimeout(timers, timeoutRef)
                      ELSE timers
              id == FreshId(kept, {timeoutRef})
          IN /\ isPending' = TRUE
             /\ timers' = setTimeout(kept, id, v, d)
             /\ timeoutRef' = id
             /\ cleared' = timers \ kept
             /\ elapsed' = 0
     ELSE /\ cleared' = {}
          /\ UNCHANGED <<isPending, timers, timeoutRef, elapsed>>
  /\ lastOp' = "render"
  /\ UNCHANGED <<mainVars, uiVars, ruleVars, mounted, debouncedValue, handler, callbackRef,
                 calls, invoked, previous>>

\* the timer callback without setIsPending(false)
UseAdvancedDebounce_Timeout_KeepPending ==
  /\ \E t \in timers :
       /\ t.left = 0
       /\ timers' = timers \ {t}
       /\ IF mounted
          THEN /\ debouncedValue' = t.captured
               /\ previous' = (IF t.captured # debouncedValue
                               THEN debouncedValue ELSE previous)
          ELSE UNCHANGED <<debouncedValue, previous>>
  /\ cleared' = {}
  /\ lastOp' = "timeout"
  /\ UNCHANGED <<mainVars, uiVars, ruleVars, mounted, value, delay, isPending,
                 handler, timeoutRef, callbackRef, calls, invoked, elapsed>>

\* lines 151-154: the timer callback
UseAdvancedDebounce_Timeout ==
  /\ \E t \in timers :
       /\ t.left = 0
       /\ timers' = timers \ {t}
       /\ IF mounted
          THEN /\ debouncedValue' = t.captured
               /\ isPending' = FALSE
               /\ previous' = (IF t.captured # debouncedValue
                               THEN debouncedValue ELSE previous)
          ELSE UNCHANGED <<debouncedValue, isPending, previous>>
  /\ cleared' = {}
  /\ lastOp' = "timeout"
  /\ UNCHANGED <<mainVars, uiVars, ruleVars, mounted, value, delay, handler, timeoutRef,
                 callbackRef, calls, invoked, elapsed>>

\* flush updating the state and leaving the timer armed
UseAdvancedDebounce_flush_NoClear ==
  /\ IF timeoutRef # 0 /\ mounted
     THEN /\ debouncedValue' = value
          /\ isPending' = FALSE
          /\ previous' = (IF value # debouncedValue
                          THEN debouncedValue ELSE previous)
     ELSE UNCHANGED <<debouncedValue, isPending, previous>>
  /\ cleared' = {}
  /\ lastOp' = "flush"
  /\ UNCHANGED <<mainVars, uiVars, ruleVars, mounted, value, delay, handler, timeoutRef,
                 callbackRef, timers, calls, invoked, elapsed>>

\* lines 140-146: flush of the latest render; the state setters do nothing
\* once the component is unmounted
UseAdvancedDebounce_flush ==
  /\ IF timeoutRef # 0
     THEN /\ timers' = clearTimeout(timers, timeoutRef)
          /\ IF mounted
             THEN /\ debouncedValue' = value
                  /\ isPending' = FALSE
                  /\ previous' = (IF value # debouncedValue
                                  THEN debouncedValue ELSE previous)
             ELSE UNCHANGED <<debouncedValue, isPending, previous>>
     ELSE UNCHANGED <<timers, debouncedValue, isPending, previous>>
  /\ cleared' = timers \ timers'
  /\ lastOp' = "flush"
  /\ UNCHANGED <<mainVars, uiVars, ruleVars, mounted, value, delay, handler, timeoutRef,
                 callbackRef, calls, invoked, elapsed>>

\* cancel clearing isPending and leaving the timer armed
UseAdvancedDebounce_cancel_NoClear ==
  /\ IF timeoutRef # 0 /\ mounted
     THEN isPending' = FALSE
     ELSE UNCHANGED isPending
  /\ cleared' = {}
  /\ lastOp' = "cancel"
  /\ UNCHANGED <<mainVars, uiVars, ruleVars, mounted, value, delay, debouncedValue, handler,
                 timeoutRef, callbackRef, timers, calls, invoked, elapsed,
                 previous>>

\* lines 133-138: cancel
UseAdvancedDebounce_cancel ==
  /\ IF timeoutRef # 0
     THEN /\ timers' = clearTimeout(timers, timeoutRef)
          /\ IF mounted THEN isPending' = FALSE ELSE UNCHANGED isPending
     ELSE UNCHANGED <<timers, isPending>>
  /\ cleared' = timers \ timers'
  /\ lastOp' = "cancel"
  /\ UNCHANGED <<mainVars, uiVars, ruleVars, mounted, value, delay, debouncedValue, handler,
                 timeoutRef, callbackRef, calls, invoked, elapsed, previous>>

\* lines 156-160: unmounting runs the cleanup of the last effect
UseAdvancedDebounce_Unmount ==
  /\ mounted
  /\ mounted' = FALSE
  /\ timers' = (IF timeoutRef # 0 THEN clearTimeout(timers, timeoutRef)
                ELSE timers)
  /\ cleared' = timers \ timers'
  /\ lastOp' = "unmount"
  /\ UNCHANGED <<mainVars, uiVars, ruleVars, value, delay, debouncedValue, isPending, handler,
                 timeoutRef, callbackRef, calls, invoked, elapsed, previous>>

NextAdvanced ==
  \/ \E v \in Values, d \in Delays : UseAdvancedDebounce_Render(v, d)
  \/ UseAdvancedDebounce_Timeout
  \/ UseAdvancedDebounce_flush
  \/ UseAdvancedDebounce_cancel
  \/ UseAdvancedDebounce_Unmount
  \/ Tick

SpecAdvanced == InitAdvanced /\ [][NextAdvanced]_vars

(***************************************************************************)
(* useDebouncedCallback                                                    *)
(***************************************************************************)
\* after the first render and its effects
InitCallback ==
  /\ MainIdle
  /\ NoUi
  /\ NoRules
  /\ mounted = TRUE
  /\ callbackRef \in Callbacks
  /\ delay \in Delays
  /\ timeoutRef = 0
  /\ timers = {}
  /\ calls = <<>>
  /\ invoked = <<>>
  /\ value = ""
  /\ debouncedValue = ""
  /\ isPending = FALSE
  /\ handler = 0
  /\ elapsed = 0
  /\ previous = ""
  /\ cleared = {}
  /\ lastOp = "mount"

\* lines 206-208 and 219-230: a render with props (cb, d); its effect
\* stores the callback and the debounced function closes over d
UseDebouncedCallback_Render(cb, d) ==
  /\ mounted
  /\ callbackRef' = cb
  /\ delay' = d
  /\ cleared' = {}
  /\ lastOp' = "render"
  /\ UNCHANGED <<mainVars, uiVars, ruleVars, mounted, value, debouncedValue, isPending, handler,
                 timeoutRef, timers, calls, invoked, elapsed, previous>>

\* the calls since the callback last ran, with this one
CallsWith(a) == IF invoked # <<>> THEN <<a>> ELSE Append(calls, a)

\* a call of the debounced function that leaves the earlier timer armed
UseDebouncedCallback_Call_NoClear(a) ==
  /\ Len(CallsWith(a)) <= MaxCalls
  /\ LET id == FreshId(timers, {timeoutRef})
     IN /\ timers' = setTimeout(timers, id, a, delay)
        /\ timeoutRef' = id
        /\ cleared' = {}
  /\ calls' = CallsWith(a)
  /\ invoked' = <<>>
  /\ elapsed' = 0
  /\ lastOp' = "call"
  /\ previous' = callbackRef
  /\ UNCHANGED <<mainVars, uiVars, ruleVars, mounted, value, delay, debouncedValue, isPending,
                 handler, callbackRef>>

\* lines 220-229: a call of the debounced function of the latest render
\* with argument a
UseDebouncedCallback_Call(a) ==
  /\ Len(CallsWith(a)) <= MaxCalls
  /\ LET kept == IF timeoutRef # 0 THEN clearTimeout(timers, timeoutRef)
                 ELSE timers
         id == FreshId(kept, {timeoutRef})
     IN /\ timers' = setTimeout(kept, id, a, delay)
        /\ timeoutRef' = id
        /\ cleared' = timers \ kept
  /\ calls' = CallsWith(a)
  /\ invoked' = <<>>
  /\ elapsed' = 0
  /\ lastOp' = "call"
  /\ previous' = callbackRef
  /\ UNCHANGED <<mainVars, uiVars, ruleVars, mounted, value, delay, debouncedValue, isPending,
                 handler, callbackRef>>

\* the timer callback invoking the callback of the render that made the call
UseDebouncedCallback_Timeout_StaleCallback ==
  /\ \E t \in timers :
       /\ t.left = 0
       /\ timers' = timers \ {t}
       /\ invoked' = <<[callback |-> previous, args |-> t.captured]>>
  /\ cleared' = {}
  /\ lastOp' = "timeout"
  /\ UNCHANGED <<mainVars, uiVars, ruleVars, mounted, value, delay,
                 debouncedValue, isPending, handler, timeoutRef, callbackRef,
                 calls, elapsed, previous>>

\* lines 226-228: the timer callback, callbackRef.current(...args)
UseDebouncedCallback_Timeout ==
  /\ \E t \in timers :
       /\ t.left = 0
       /\ timers' = timers \ {t}
       /\ invoked' = <<[callback |-> callbackRef, args |-> t.captured]>>
  /\ cleared' = {}
  /\ lastOp' = "timeout"
  /\ UNCHANGED <<mainVars, uiVars, ruleVars, mounted, value, delay, debouncedValue, isPending,
                 handler, timeoutRef, callbackRef, calls, elapsed, previous>>

\* lines 211-217: unmounting runs the cleanup
UseDebouncedCallback_Unmount ==
  /\ mounted
  /\ mounted' = FALSE
  /\ timers' = (IF timeoutRef # 0 THEN clearTimeout(timers, timeoutRef)
                ELSE timers)
  /\ cleared' = timers \ timers'
  /\ lastOp' = "unmount"
  /\ UNCHANGED <<mainVars, uiVars, ruleVars, value, delay, debouncedValue, isPending, handler,
                 timeoutRef, callbackRef, calls, invoked, elapsed, previous>>

NextCallback ==
  \/ \E cb \in Callbacks, d \in Delays : UseDebouncedCallback_Render(cb, d)
  \/ \E a \in Values : UseDebouncedCallback_Call(a)
  \/ UseDebouncedCallback_Timeout
  \/ UseDebouncedCallback_Unmount
  \/ Tick

SpecCallback == InitCallback /\ [][NextCallback]_vars

(***************************************************************************)
(* Context providers: the elements above a consuming component, and the    *)
(* hooks useLayout and useActiveTheme called while it renders.             *)
(***************************************************************************)
Layouts == {"default", "fixed", "fluid"}

\* what useTheme() of next-themes returns: theme and resolvedTheme
ThemeStates ==
  {<<"light", "light">>, <<"dark", "dark">>, <<"system", "light">>,
   <<"system", "dark">>, <<"undefined", "undefined">>}

LayoutProviderElement(l) ==
  [kind |-> "LayoutProvider", layout |-> l, mounted |-> FALSE,
   theme |-> "", resolvedTheme |-> ""]

ActiveThemeProviderElement(m, ts) ==
  [kind |-> "ActiveThemeProvider", layout |-> "", mounted |-> m,
   theme |-> ts[1], resolvedTheme |-> ts[2]]

\* an element that provides neither context
OtherElement ==
  [kind |-> "div", layout |-> "", mounted |-> FALSE,
   theme |-> "", resolvedTheme |-> ""]

Elements ==
  {LayoutProviderElement(l) : l \in Layouts}
  \cup {ActiveThemeProviderElement(m, ts) : m \in BOOLEAN, ts \in ThemeStates}
  \cup {OtherElement}

Chains == UNION {[1..n -> Elements] : n \in 0..MaxAncestors}

\* the value prop the provider element el, at position i, gives its
\* Provider; setLayout is the state setter of that provider instance
ContextValue(el, i) ==
  IF el.kind = "LayoutProvider"
  THEN [layout |-> el.layout, setLayout |-> i]
  ELSE LET activeTheme == IF el.mounted THEN el.resolvedTheme
                          ELSE "undefined"
       IN [activeTheme |-> activeTheme,
           isLight |-> activeTheme = "light",
           isDark |-> activeTheme = "dark",
           isSystem |-> el.theme = "system"]

\* useContext reading the outermost matching provider
useContext_Outermost(chain, kind) ==
  LET at == {i \in 1..Len(chain) : chain[i].kind = kind}
  IN IF at = {} THEN <<>>
     ELSE LET i == CHOOSE k \in at : \A j \in at : k <= j
          IN <<ContextValue(chain[i], i)>>

\* React.useContext: <<value of the nearest matching provider>>, <<>> for
\* the default value undefined
useContext(chain, kind) ==
  LET at == {i \in 1..Len(chain) : chain[i].kind = kind}
  IN IF at = {} THEN <<>>
     ELSE LET i == CHOOSE k \in at : \A j \in at : j <= k
          IN <<ContextValue(chain[i], i)>>

useLayout(chain) ==
  LET context == useContext(chain, "LayoutProvider")
  IN IF context = <<>>
     THEN [threw |-> TRUE,
           error |-> "useLayout must be used within a LayoutProvider",
           value |-> <<>>]
     ELSE [threw |-> FALSE, error |-> "", value |-> context]

useActiveTheme(chain) ==
  LET context == useContext(chain, "ActiveThemeProvider")
  IN IF context = <<>>
     THEN [threw |-> TRUE,
           error |-> "useActiveTheme must be used within an ActiveThemeProvider",
           value |-> <<>>]
     ELSE [threw |-> FALSE, error |-> "", value |-> context]

ContextHooks == {"useLayout", "useActiveTheme"}

NotCalled == [h \in ContextHooks |-> <<>>]

InitContext ==
  /\ MainIdle
  /\ NoHooks
  /\ NoRules
  /\ ancestors \in Chains
  /\ called = NotCalled
  /\ layout = ""
  /\ synced = ""
  /\ classList = {}
  /\ springs = <<>>
  /\ springCall = <<>>
  /\ springResult = <<>>

\* the provider at position i changes state (setLayout, the mounted
\* effect, a theme change) and the tree below it renders again
Provider_Render(i, el) ==
  /\ i \in 1..Len(ancestors)
  /\ el.kind = ancestors[i].kind
  /\ el.kind # "div"
  /\ ancestors' = [ancestors EXCEPT ![i] = el]
  /\ called' = NotCalled
  /\ UNCHANGED <<mainVars, hookVars, ruleVars, layout, synced, classList, springs,
                 springCall, springResult>>

\* the component calls useLayout()
Consumer_useLayout ==
  /\ called' = [called EXCEPT !["useLayout"] = <<useLayout(ancestors)>>]
  /\ UNCHANGED <<mainVars, hookVars, ruleVars, ancestors, layout, synced, classList,
                 springs, springCall, springResult>>

\* the component calls useActiveTheme()
Consumer_useActiveTheme ==
  /\ called' = [called EXCEPT
                  !["useActiveTheme"] = <<useActiveTheme(ancestors)>>]
  /\ UNCHANGED <<mainVars, hookVars, ruleVars, ancestors, layout, synced, classList,
                 springs, springCall, springResult>>

NextContext ==
  \/ \E i \in 1..MaxAncestors, el \in Elements : Provider_Render(i, el)
  \/ Consumer_useLayout
  \/ Consumer_useActiveTheme

SpecContext == InitContext /\ [][NextContext]_vars

(***************************************************************************)
(* Spring configurations.  mass is kept in tenths (0.8 is 8).              *)
(***************************************************************************)
SPRINGS ==
  [land      |-> [stiffness |-> 400, damping |-> 28, mass |-> 8],
   drag      |-> [stiffness |-> 340, damping |-> 26, mass |-> 9],
   ripple    |-> [stiffness |-> 450, damping |-> 45, mass |-> 7],
   magnetism |-> [stiffness |-> 450, damping |-> 50, mass |-> 8],
   cluster   |-> [stiffness |-> 340, damping |-> 38, mass |-> 14],
   growth    |-> [stiffness |-> 360, damping |-> 42, mass |-> 11]]

SpringName == DOMAIN SPRINGS

SpringKeys == {"stiffness", "damping", "mass"}

OverrideValues == {0, 30, 500}

\* Partial<{ stiffness, damping, mass }>
Overrides == UNION {[keys -> OverrideValues] : keys \in SUBSET SpringKeys}

\* { ...a, ...b }
ObjectSpread(a, b) ==
  [k \in DOMAIN a \cup DOMAIN b |-> IF k \in DOMAIN b THEN b[k] ELSE a[k]]

getSpring(table, name) == table[name]

createCustomSpring(table, base, overrides) ==
  ObjectSpread(table[base], overrides)

InitSprings ==
  /\ MainIdle
  /\ NoHooks
  /\ NoRules
  /\ ancestors = <<>>
  /\ called = <<>>
  /\ layout = ""
  /\ synced = ""
  /\ classList = {}
  /\ springs = SPRINGS
  /\ springCall = <<>>
  /\ springResult = <<>>

\* lines 188-190: a call getSpring(name)
Call_getSpring(name) ==
  /\ springCall' = <<[fn |-> "getSpring", name |-> name, overrides |-> <<>>]>>
  /\ springResult' = <<getSpring(springs, name)>>
  /\ UNCHANGED <<mainVars, hookVars, ruleVars, ancestors, called, layout, synced,
                 classList, springs>>

\* createCustomSpring assigning the overrides into the table entry
Call_createCustomSpring_AssignInPlace(base, overrides) ==
  /\ springCall' = <<[fn |-> "createCustomSpring", name |-> base,
                      overrides |-> overrides]>>
  /\ springs' = [springs EXCEPT
                   ![base] = createCustomSpring(springs, base, overrides)]
  /\ springResult' = <<springs'[base]>>
  /\ UNCHANGED <<mainVars, hookVars, ruleVars, ancestors, called, layout, synced,
                 classList>>

\* lines 208-213: a call createCustomSpring(base, overrides)
Call_createCustomSpring(base, overrides) ==
  /\ springCall' = <<[fn |-> "createCustomSpring", name |-> base,
                      overrides |-> overrides]>>
  /\ springResult' = <<createCustomSpring(springs, base, overrides)>>
  /\ UNCHANGED <<mainVars, hookVars, ruleVars, ancestors, called, layout, synced,
                 classList, springs>>

NextSprings ==
  \/ \E name \in SpringName : Call_getSpring(name)
  \/ \E base \in SpringName, overrides \in Overrides :
       Call_createCustomSpring(base, overrides)

SpecSprings == InitSprings /\ [][NextSprings]_vars

(***************************************************************************)
(* LayoutProvider: the layout state and the effect that mirrors it into    *)
(* the class list of the document root.  The effect has no cleanup, so     *)
(* the root may carry layout classes from before the provider mounted.     *)
(***************************************************************************)
\* `layout-${layout}`
LayoutClass(l) == "layout-" \o l

LayoutClasses == {LayoutClass(l) : l \in Layouts}

\* the classes the document root may carry when the provider mounts
RootClasses == LayoutClasses \cup {"dark", "theme-blue"}

\* the effect has not run since layout last changed
SyncPending ==
  IF synced = <<>> THEN TRUE ELSE synced[Len(synced)] # layout

InitLayout ==
  /\ MainIdle
  /\ NoHooks
  /\ NoRules
  /\ ancestors = <<>>
  /\ called = <<>>
  /\ layout \in Layouts
  /\ synced = <<>>
  /\ classList \in SUBSET RootClasses
  /\ springs = <<>>
  /\ springCall = <<>>
  /\ springResult = <<>>

\* line 62: a call setLayout(l) of the state setter
LayoutProvider_setLayout(l) ==
  /\ layout' = l
  /\ UNCHANGED <<mainVars, hookVars, ruleVars, ancestors, called, synced,
                 classList, springs, springCall, springResult>>

\* the sync effect adding the class of the layout and removing none
LayoutProvider_SyncEffect_NoRemove ==
  /\ SyncPending
  /\ classList' = classList \cup {LayoutClass(layout)}
  /\ synced' = (IF synced = <<>> THEN <<layout>>
                ELSE <<synced[Len(synced)], layout>>)
  /\ UNCHANGED <<mainVars, hookVars, ruleVars, ancestors, called, layout,
                 springs, springCall, springResult>>

\* lines 65-73: the sync effect, which runs after the mount and after every
\* render in which layout changed
LayoutProvider_SyncEffect ==
  /\ SyncPending
  /\ classList' = (classList \ {"layout-default", "layout-fixed",
                                 "layout-fluid"})
                     \cup {LayoutClass(layout)}
  /\ synced' = (IF synced = <<>> THEN <<layout>>
                ELSE <<synced[Len(synced)], layout>>)
  /\ UNCHANGED <<mainVars, hookVars, ruleVars, ancestors, called, layout,
                 springs, springCall, springResult>>

NextLayout ==
  \/ \E l \in Layouts : LayoutProvider_setLayout(l)
  \/ LayoutProvider_SyncEffect

SpecLayout == InitLayout /\ [][NextLayout]_vars

(***************************************************************************)
(* validateFile over rule functions that may throw.  The PatternCheck type *)
(* only says that check returns a boolean; what a call of it does is one   *)
(* of: it returns true, it returns false, it throws.                       *)
(***************************************************************************)
CheckOutcomes == {"passes", "fails", "throws"}

\* the file of the observed call: it exports, so the rules are reached
ObservedFile == "input.tsx"

\* lines 165-192: validateFile past the export test, outcome[k] being what
\* PATTERN_CHECKS[k].check(content, fileName) does.  The one try block
\* holds the whole loop, so a throw leaves the loop for the catch clause.
validateFileOver(outcome, filePath) ==
  LET fileName == Basename(filePath)
      componentName == Replace(fileName, ".tsx", "")
      RECURSIVE Loop(_, _)
      Loop(k, violations) ==
        IF k > Len(PATTERN_CHECKS)
        THEN [violations |-> violations, log |-> <<>>, returned |-> TRUE]
        ELSE IF outcome[k] = "throws"
        THEN [violations |-> violations,
              log |-> <<"Error validating " \o filePath \o ":">>,
              returned |-> TRUE]
        ELSE IF outcome[k] = "fails"
        THEN Loop(k + 1, Append(violations,
               [file |-> fileName,
                component |-> componentName,
                pattern |-> PATTERN_CHECKS[k].name,
                message |-> PATTERN_CHECKS[k].description,
                severity |-> PATTERN_CHECKS[k].severity]))
        ELSE Loop(k + 1, violations)
  IN Loop(1, <<>>)

InitRules ==
  /\ MainIdle
  /\ NoHooks
  /\ NoUi
  /\ ruleOutcome \in [1..Len(PATTERN_CHECKS) -> CheckOutcomes]
  /\ ruleResult = <<>>

\* main's call validateFile(file) for the observed file
ValidateFile_Call ==
  /\ ruleResult = <<>>
  /\ ruleResult' = <<validateFileOver(ruleOutcome,
                                      PathJoin(RegistryPath, ObservedFile))>>
  /\ UNCHANGED <<mainVars, hookVars, uiVars, ruleOutcome>>

NextRules == ValidateFile_Call

SpecRules == InitRules /\ [][NextRules]_vars

(***************************************************************************)
(* Vocabulary of the properties.                                           *)
(***************************************************************************)
HasSeverity(vs, sev) == \E i \in 1..Len(vs) : vs[i].severity = sev

InSeq(v, vs) == \E i \in 1..Len(vs) : vs[i] = v

\* the rule names of the blocking violations of vs, in order
BlockingPatterns(vs) ==
  LET e == SelectSeq(vs, LAMBDA v : v.severity = "error")
  IN [i \in 1..Len(e) |-> e[i].pattern]

\* the loop over componentFiles is over
LoopDone == rootExists /\ pc \in {"report", "summary", "rejected", "exited"}

\* the report was asked for and cannot be written
ReportWriteFails == "--report" \in argv /\ ~cwdWritable

\* the file of a single-file run
OnlyFile == root.entries[1]

SingleFileRunExited ==
  /\ pc = "exited"
  /\ rootExists
  /\ Len(root.entries) = 1
  /\ root.entries[1].kind = "file"
  /\ root.entries[1].readable

HasExportedFunction(text) ==
  \/ Includes(text, "export function")
  \/ MatchDotStar3(text, "export const", "=", "=>")

HasPropsType(text) ==
  \/ MatchDotStar2(text, "interface", "Props")
  \/ MatchDotStar2(text, "type", "Props")

NameIsInteractive(name) ==
  \E el \in {"button", "input", "select", "textarea", "checkbox", "radio",
             "switch", "slider", "toggle"} : Includes(name, el)

(***************************************************************************)
(* C1  Exit code.                                                          *)
(***************************************************************************)
\* C1 as stated: a finished run has a non-zero exit code if and only if a
\* blocking violation was collected or the registry root does not exist.
C1_Original ==
  pc = "exited" =>
    (exitCode # 0 <=> (HasSeverity(allViolations, "error") \/ ~rootExists))

\* C1 amended: a finished run exits with 0 or 1, and with 1 if and only if a
\* blocking violation was collected, the registry root does not exist, or
\* the report asked for with --report could not be written.
C1_ExitCode ==
  pc = "exited" =>
    /\ exitCode \in {0, 1}
    /\ exitCode # 0 <=>
         \/ HasSeverity(allViolations, "error")
         \/ ~rootExists
         \/ ReportWriteFails

\* a run with advisory violations only has exited with 0
C1_Witness ==
  /\ pc = "exited"
  /\ rootExists
  /\ exitCode = 0
  /\ HasSeverity(allViolations, "warning")

(***************************************************************************)
(* C2  Files without an export marker.                                     *)
(***************************************************************************)
\* C2: validating a file whose text does not contain "export" adds no
\* violation, whatever the file's name and the rest of its text.
C2_NoExportNoViolations ==
  [][ ( /\ pc = "validate"
        /\ idx <= Len(componentFiles)
        /\ ~Includes(NodeAt(RegistryPath, root, componentFiles[idx]).content,
                     "export") )
      => allViolations' = allViolations ]_vars

\* button.tsx defining a function it does not export, without focus ring,
\* has been validated and nothing was collected
C2_Witness ==
  /\ pc = "validate"
  /\ idx = 2
  /\ Len(root.entries) = 1
  /\ OnlyFile.name = "button.tsx"
  /\ ~Includes(OnlyFile.content, "export")
  /\ Includes(OnlyFile.content, "function")
  /\ ~Includes(OnlyFile.content, "focus-visible:")
  /\ allViolations = <<>>

(***************************************************************************)
(* C3  Severity partition.                                                 *)
(***************************************************************************)
\* C3: the blocking and the advisory subset formatViolations computes
\* partition the violation sequence: their lengths add up to its length and
\* every violation is in exactly one of them; the counts of the report add
\* up as well.
C3_Partition ==
  /\ LoopDone =>
       /\ Len(fmt.errors) + Len(fmt.warnings) = Len(allViolations)
       /\ \A i \in 1..Len(allViolations) :
            /\ InSeq(allViolations[i], fmt.errors)
                 \/ InSeq(allViolations[i], fmt.warnings)
            /\ ~ ( InSeq(allViolations[i], fmt.errors)
                   /\ InSeq(allViolations[i], fmt.warnings) )
  /\ reportFile # NoFile =>
       reportFile[1].errors + reportFile[1].warnings
         = reportFile[1].totalViolations

\* both subsets are non-empty
C3_Witness ==
  /\ pc = "report"
  /\ Len(fmt.errors) > 0
  /\ Len(fmt.warnings) > 0

(***************************************************************************)
(* C4  Determinism.                                                        *)
(***************************************************************************)
\* C4: a second run on the unchanged tree collects the violation sequence of
\* the first run, same content in the same order, whatever the flags.
C4_Deterministic ==
  (runNo > 1 /\ pc \in {"report", "summary", "rejected", "exited"})
    => allViolations = prevRun[1].violations

\* the second run has finished after a report was written, with violations
C4_Witness ==
  /\ runNo = 2
  /\ pc = "exited"
  /\ reportFile # NoFile
  /\ Len(allViolations) > 1
  /\ allViolations = prevRun[1].violations

(***************************************************************************)
(* C5  Missing registry root.                                              *)
(***************************************************************************)
\* C5: when the registry root does not exist the run exits with code 1 in
\* its first step: nothing is enumerated or validated, nothing but the
\* registry-path error is logged, and no report file is written.
C5_MissingRoot ==
  (~rootExists /\ pc # "start") =>
    /\ pc = "exited"
    /\ exitCode = 1
    /\ componentFiles = <<>>
    /\ allViolations = <<>>
    /\ stdout = <<"Validating component patterns...\n">>
    /\ stderr = <<"Registry path not found: " \o RegistryPath>>
    /\ reportFile = NoFile

\* a run with --report has exited on the missing root
C5_Witness ==
  /\ ~rootExists
  /\ pc = "exited"
  /\ "--report" \in argv

(***************************************************************************)
(* C6  Scenario button.tsx.                                                *)
(***************************************************************************)
C6_Scenario ==
  /\ SingleFileRunExited
  /\ OnlyFile.name = "button.tsx"
  /\ HasExportedFunction(OnlyFile.content)
  /\ ~Includes(OnlyFile.content, "data-slot=")
  /\ ~Includes(OnlyFile.content, "focus-visible:ring")

C6_TwoBlocking ==
  /\ BlockingPatterns(allViolations) = <<"data-slot", "focus-visible-ring">>
  /\ exitCode = 1

\* C6 as stated: button.tsx with an exported function, no data-slot= and no
\* focus-visible:ring yields exactly the two blocking violations data-slot
\* and focus-visible-ring, and exit code 1.
C6_Original == C6_Scenario => C6_TwoBlocking

\* C6 amended: the same, for a file that also has no
\* focus-visible:border-ring substring and has a props type (a line matching
\* interface.*Props or type.*Props).
C6_Amended ==
  ( /\ C6_Scenario
    /\ ~Includes(OnlyFile.content, "focus-visible:border-ring")
    /\ HasPropsType(OnlyFile.content) )
  => C6_TwoBlocking

\* the amended scenario with an advisory violation on top
C6_Witness ==
  /\ C6_Scenario
  /\ ~Includes(OnlyFile.content, "focus-visible:border-ring")
  /\ HasPropsType(OnlyFile.content)
  /\ HasSeverity(allViolations, "warning")
  /\ C6_TwoBlocking

(***************************************************************************)
(* C7  Scenario card.tsx.                                                  *)
(***************************************************************************)
\* C7: for a file whose name contains no interactive-element name, the
\* rules data-slot, focus-visible-ring and aria-invalid-styling never yield
\* a violation; with an exported function and no props type the blocking
\* violations are exactly typescript-types.
C7_CardScenario ==
  (SingleFileRunExited /\ ~NameIsInteractive(OnlyFile.name)) =>
    /\ \A i \in 1..Len(allViolations) :
         allViolations[i].pattern \notin
           {"data-slot", "focus-visible-ring", "aria-invalid-styling"}
    /\ ( HasExportedFunction(OnlyFile.content)
         /\ ~HasPropsType(OnlyFile.content) )
       => BlockingPatterns(allViolations) = <<"typescript-types">>

\* card.tsx with an exported function, no props type, no data-slot, no
\* focus ring and no aria-invalid styling
C7_Witness ==
  /\ SingleFileRunExited
  /\ OnlyFile.name = "card.tsx"
  /\ HasExportedFunction(OnlyFile.content)
  /\ ~HasPropsType(OnlyFile.content)
  /\ ~Includes(OnlyFile.content, "data-slot=")
  /\ ~Includes(OnlyFile.content, "focus-visible:")
  /\ ~Includes(OnlyFile.content, "aria-invalid:")
  /\ BlockingPatterns(allViolations) = <<"typescript-types">>
  /\ exitCode = 1

(***************************************************************************)
(* C8  Order of the violation sequence.                                    *)
(***************************************************************************)
\* one violation per failing rule of the file at path p, in table order
ExpectedFor(fsroot, p) ==
  LET node == NodeAt(RegistryPath, fsroot, p)
      base == Basename(p)
      failing == SelectSeq(<<1, 2, 3, 4, 5>>,
                           LAMBDA k : ~RunCheck(k, node.content, base))
  IN IF ~node.readable \/ ~Includes(node.content, "export") THEN <<>>
     ELSE [i \in 1..Len(failing) |->
             [file |-> base,
              component |-> Replace(base, ".tsx", ""),
              pattern |-> PATTERN_CHECKS[failing[i]].name,
              message |-> PATTERN_CHECKS[failing[i]].description,
              severity |-> PATTERN_CHECKS[failing[i]].severity]]

RECURSIVE ExpectedUpTo(_, _, _)
\* the expected violations of the first n files, file after file
ExpectedUpTo(fsroot, files, n) ==
  IF n = 0 THEN <<>>
  ELSE ExpectedUpTo(fsroot, files, n - 1) \o ExpectedFor(fsroot, files[n])

\* C8: at every point of the loop the violation sequence is the
\* concatenation, in discovery order, of the violations of the files
\* validated so far, each file's in rule-table order; nothing is dropped,
\* merged or reordered.
C8_Concatenation ==
  /\ pc = "validate" =>
       allViolations = ExpectedUpTo(root, componentFiles, idx - 1)
  /\ LoopDone =>
       allViolations = ExpectedUpTo(root, componentFiles, Len(componentFiles))

\* two files named button.tsx in different directories have each
\* contributed the same three violations
C8_Witness ==
  /\ pc = "report"
  /\ Len(componentFiles) = 2
  /\ componentFiles[1] # componentFiles[2]
  /\ Basename(componentFiles[1]) = Basename(componentFiles[2])
  /\ Len(allViolations) = 6
  /\ \A i \in 1..3 : allViolations[i] = allViolations[i + 3]

(***************************************************************************)
(* C9  Rule names and severities.                                          *)
(***************************************************************************)
\* the severity the table fixes for each rule name
RuleSeverity ==
  [n \in {"data-slot", "focus-visible-ring", "aria-invalid-styling",
          "cva-usage", "typescript-types"} |->
     IF n \in {"aria-invalid-styling", "cva-usage"} THEN "warning"
     ELSE "error"]

\* C9: rule names are unique, three rules are blocking and two advisory,
\* and every violation collected carries the name of exactly one rule and
\* that rule's severity.
C9_RuleSeverity ==
  /\ \A k \in 1..Len(PATTERN_CHECKS) : \A l \in 1..Len(PATTERN_CHECKS) :
       k # l => PATTERN_CHECKS[k].name # PATTERN_CHECKS[l].name
  /\ Cardinality({k \in 1..Len(PATTERN_CHECKS) :
                    PATTERN_CHECKS[k].severity = "error"}) = 3
  /\ Cardinality({k \in 1..Len(PATTERN_CHECKS) :
                    PATTERN_CHECKS[k].severity = "warning"}) = 2
  /\ \A i \in 1..Len(allViolations) :
       /\ Cardinality({k \in 1..Len(PATTERN_CHECKS) :
                         PATTERN_CHECKS[k].name = allViolations[i].pattern}) = 1
       /\ allViolations[i].pattern \in DOMAIN RuleSeverity
       /\ allViolations[i].severity = RuleSeverity[allViolations[i].pattern]

\* a run with --report has collected an advisory cva-usage violation and a
\* blocking typescript-types violation
C9_Witness ==
  /\ pc = "exited"
  /\ "--report" \in argv
  /\ \E i \in 1..Len(allViolations) :
       /\ allViolations[i].pattern = "cva-usage"
       /\ allViolations[i].severity = "warning"
  /\ \E i \in 1..Len(allViolations) :
       /\ allViolations[i].pattern = "typescript-types"
       /\ allViolations[i].severity = "error"

(***************************************************************************)
(* C10  Unreadable files.                                                  *)
(***************************************************************************)
\* some readable file of the run fails a blocking rule
SomeReadableFileBlocks ==
  \E i \in 1..Len(componentFiles) :
     LET node == NodeAt(RegistryPath, root, componentFiles[i])
     IN /\ node.readable
        /\ Includes(node.content, "export")
        /\ \E k \in 1..Len(PATTERN_CHECKS) :
              /\ PATTERN_CHECKS[k].severity = "error"
              /\ ~RunCheck(k, node.content, Basename(componentFiles[i]))

\* C10: when reading a discovered file fails, the loop logs the error, adds
\* no violation and goes on to the next file; every file is visited, and
\* the exit code is the one the readable files alone determine.
C10_ReadFailureSkips ==
  /\ [][ ( /\ pc = "validate"
           /\ idx <= Len(componentFiles)
           /\ ~NodeAt(RegistryPath, root, componentFiles[idx]).readable )
         => /\ allViolations' = allViolations
            /\ stderr' = Append(stderr, "Error validating "
                                          \o componentFiles[idx] \o ":")
            /\ idx' = idx + 1
            /\ pc' = "validate"
            /\ exitCode' = NoExit ]_vars
  /\ [](LoopDone => idx = Len(componentFiles) + 1)
  /\ []((LoopDone /\ pc = "exited" /\ ~ReportWriteFails) =>
          exitCode = (IF SomeReadableFileBlocks THEN 1 ELSE 0))

\* the first file was unreadable, a later file contributed an advisory
\* violation, and the run exited with 0
C10_Witness ==
  /\ pc = "exited"
  /\ rootExists
  /\ Len(componentFiles) >= 2
  /\ ~NodeAt(RegistryPath, root, componentFiles[1]).readable
  /\ stderr = <<"Error validating " \o componentFiles[1] \o ":">>
  /\ Len(allViolations) > 0
  /\ exitCode = 0

(***************************************************************************)
(* C11  Unreadable subdirectories.                                         *)
(***************************************************************************)
RECURSIVE TsxFiles(_, _, _)
\* paths of the regular .tsx files below dir; with listable = TRUE only
\* those every ancestor directory of which can be listed
TsxFiles(dir, node, listable) ==
  IF listable /\ ~node.readable THEN {}
  ELSE UNION { LET entry == node.entries[k]
                   p == PathJoin(dir, entry.name)
               IN IF entry.kind = "dir" THEN TsxFiles(p, entry, listable)
                  ELSE IF entry.kind = "file" /\ EndsWith(entry.name, ".tsx")
                  THEN {p}
                  ELSE {} : k \in 1..Len(node.entries) }

RECURSIVE UnlistableDirs(_, _)
\* paths of the directories the walker reaches and cannot list
UnlistableDirs(dir, node) ==
  IF ~node.readable THEN {dir}
  ELSE UNION { IF node.entries[k].kind = "dir"
               THEN UnlistableDirs(PathJoin(dir, node.entries[k].name),
                                   node.entries[k])
               ELSE {} : k \in 1..Len(node.entries) }

\* C11: the files the walker returns are exactly the .tsx files reachable
\* through listable directories, each once; every directory that cannot be
\* listed is logged and contributes nothing, and the files listed before
\* and after it in its parent are still returned.
C11_WalkerFailsSoft ==
  (rootExists /\ pc \notin {"start", "find"}) =>
    /\ {componentFiles[i] : i \in 1..Len(componentFiles)}
         = TsxFiles(RegistryPath, root, TRUE)
    /\ Cardinality(TsxFiles(RegistryPath, root, TRUE)) = Len(componentFiles)
    /\ \A d \in UnlistableDirs(RegistryPath, root) :
         InSeq("Error reading directory " \o d \o ":", stderr)

\* the root lists a .tsx file, an unreadable subdirectory and another .tsx
\* file; both files were returned and the error was logged
C11_Witness ==
  /\ pc = "validate"
  /\ idx = 1
  /\ Len(root.entries) = 3
  /\ root.entries[1].kind = "file"
  /\ root.entries[2].kind = "dir"
  /\ ~root.entries[2].readable
  /\ root.entries[3].kind = "file"
  /\ componentFiles = <<PathJoin(RegistryPath, root.entries[1].name),
                        PathJoin(RegistryPath, root.entries[3].name)>>
  /\ stderr = <<"Error reading directory "
                  \o PathJoin(RegistryPath, root.entries[2].name) \o ":">>

(***************************************************************************)
(* C12  Scenario: no .tsx files.                                           *)
(***************************************************************************)
C12_Scenario ==
  /\ pc = "exited"
  /\ rootExists
  /\ TsxFiles(RegistryPath, root, FALSE) = {}

\* the report of this run is on disk and shows no violations
C12_EmptyReport ==
  /\ reportFile # NoFile
  /\ reportFile[1].timestamp = runNo
  /\ reportFile[1].totalViolations = 0

\* C12 as stated: with an existing root that holds no .tsx file, no file is
\* discovered, no violation is produced, the exit code is 0 and the report,
\* if requested, shows totalViolations 0.
C12_Original ==
  C12_Scenario =>
    /\ componentFiles = <<>>
    /\ allViolations = <<>>
    /\ exitCode = 0
    /\ "--report" \in argv => C12_EmptyReport

\* C12 amended: the same, with exit code 0 and the report showing
\* totalViolations 0 unless the requested report cannot be written, in
\* which case the exit code is 1.
C12_Amended ==
  C12_Scenario =>
    /\ componentFiles = <<>>
    /\ allViolations = <<>>
    /\ exitCode = (IF ReportWriteFails THEN 1 ELSE 0)
    /\ ("--report" \in argv /\ cwdWritable) => C12_EmptyReport

\* a root that lists only a file that is not .tsx, run with --report
C12_Witness ==
  /\ C12_Scenario
  /\ Len(root.entries) = 1
  /\ root.entries[1].kind = "file"
  /\ "--report" \in argv
  /\ C12_EmptyReport
  /\ exitCode = 0

(***************************************************************************)
(* C14  Layout of the rendered text.                                       *)
(***************************************************************************)
RECURSIVE ListedFrom(_, _, _)
\* the entries of the violations of one severity, walking the original
\* sequence from position i on
ListedFrom(vs, sev, i) ==
  IF i > Len(vs) THEN ""
  ELSE (IF vs[i].severity = sev
        THEN "  " \o vs[i].file \o "\n    " \o vs[i].pattern \o ": "
             \o vs[i].message \o "\n\n"
        ELSE "")
       \o ListedFrom(vs, sev, i + 1)

CountOf(vs, sev) == Cardinality({i \in 1..Len(vs) : vs[i].severity = sev})

\* the one-line summary with both counts
SummaryLine(vs) ==
  "Total: " \o ToString(CountOf(vs, "error")) \o " error(s), "
  \o ToString(CountOf(vs, "warning")) \o " warning(s)\n"

\* blocking group (if any), advisory group (if any), summary line
GroupedLayout(vs) ==
  (IF HasSeverity(vs, "error")
   THEN "Errors:\n\n" \o ListedFrom(vs, "error", 1) ELSE "")
  \o (IF HasSeverity(vs, "warning")
      THEN "Warnings:\n\n" \o ListedFrom(vs, "warning", 1) ELSE "")
  \o "\n" \o SummaryLine(vs)

Formatted == fmt # NoFmt

\* C14 as stated: for every violation sequence the rendered text is the
\* blocking group, then the advisory group, each in the original order,
\* and ends with the one-line summary that gives both counts.
C14_Original ==
  Formatted =>
    /\ fmt.text = GroupedLayout(allViolations)
    /\ EndsWith(fmt.text, SummaryLine(allViolations))

\* C14 amended: that layout holds for every non-empty violation sequence;
\* for the empty sequence the text is the fixed no-violations line, with
\* no summary and no counts.
C14_Amended ==
  Formatted =>
    IF allViolations = <<>>
    THEN /\ fmt.text = "No violations found!"
         /\ ~Includes(fmt.text, "Total:")
    ELSE /\ fmt.text = GroupedLayout(allViolations)
         /\ EndsWith(fmt.text, SummaryLine(allViolations))

\* an advisory violation precedes a blocking one in the sequence, and the
\* text has been rendered
C14_Witness ==
  /\ pc = "report"
  /\ Formatted
  /\ \E i, j \in 1..Len(allViolations) :
       /\ i < j
       /\ allViolations[i].severity = "warning"
       /\ allViolations[j].severity = "error"
       /\ allViolations[i].file # allViolations[j].file
  /\ Includes(fmt.text, "Errors:\n\n")
  /\ Includes(fmt.text, "Warnings:\n\n")

(***************************************************************************)
(* C15  The report file.                                                   *)
(***************************************************************************)
\* the report file on disk was written by the current run
ReportOfThisRun == reportFile # NoFile /\ reportFile[1].timestamp = runNo

\* the whole file holds one report of the complete violation sequence
ReportIsComplete ==
  /\ Len(reportFile) = 1
  /\ reportFile[1].violations = allViolations
  /\ reportFile[1].totalViolations = Len(allViolations)
  /\ reportFile[1].errors = CountOf(allViolations, "error")
  /\ reportFile[1].warnings = CountOf(allViolations, "warning")

\* the file changes only in the report step of a run with --report and an
\* existing root
ReportWrittenOnlyOnRequest ==
  [][reportFile' # reportFile =>
       pc = "report" /\ "--report" \in argv /\ rootExists]_vars

ScanIsReadOnly ==
  [][/\ root' = root
     /\ rootExists' = rootExists
     /\ reportFile' # reportFile => pc = "report" /\ "--report" \in argv]_vars

\* this run and the previous one agree on --report and differ on --fix
DiffersOnlyInFix ==
  /\ runNo > 1
  /\ prevRun[1].report = ("--report" \in argv)
  /\ prevRun[1].fix # ("--fix" \in argv)

SameOutcomeAsPrevious ==
  /\ allViolations = prevRun[1].violations
  /\ stdout = prevRun[1].stdout
  /\ stderr = prevRun[1].stderr
  /\ exitCode = prevRun[1].exitCode

\* C16: no run modifies the scanned tree, the only file written is the
\* report, and two finished runs over the same tree that differ only in
\* --fix have the same violation sequence, console output and exit code.
C16_FixHasNoEffect ==
  /\ ScanIsReadOnly
  /\ []((pc = "exited" /\ DiffersOnlyInFix) => SameOutcomeAsPrevious)

\* a run with --fix after a run without it, both failing on blocking
\* violations
C16_Witness ==
  /\ pc = "exited"
  /\ DiffersOnlyInFix
  /\ "--fix" \in argv
  /\ rootExists
  /\ exitCode = 1
  /\ HasSeverity(allViolations, "error")
  /\ SameOutcomeAsPrevious

(***************************************************************************)
(* C17  useDebounce.                                                       *)
(***************************************************************************)
\* the returned value changes only in a timer callback, once the delay has
\* run since the last change of the input, and to the latest input
ReturnsOnlySettledInput ==
  [][debouncedValue' # debouncedValue =>
       /\ lastOp' = "timeout"
       /\ elapsed >= delay
       /\ debouncedValue' = value]_vars

\* from some point on neither value nor delay changes
ChangesStop == <>[][value' = value /\ delay' = delay]_vars

\* C17: the hook keeps returning the previous debounced value until the
\* delay has elapsed with no further change and then returns the latest
\* value, never a superseded one; once changes stop, the value returned by
\* the mounted hook eventually equals the input and stays equal.
C17_Debounced ==
  /\ ReturnsOnlySettledInput
  /\ ChangesStop => <>[](mounted => debouncedValue = value)

\* the input changed, a positive delay ran down and the timer callback
\* replaced the returned value by the input
C17_Witness ==
  /\ lastOp = "timeout"
  /\ mounted
  /\ delay > 0
  /\ elapsed >= delay
  /\ debouncedValue = value
  /\ previous # debouncedValue

(***************************************************************************)
(* C18  useAdvancedDebounce.flush.                                         *)
(***************************************************************************)
\* a scheduled update is outstanding
PendingUpdate == timers # {}

\* C18: flush called while an update is pending sets debouncedValue to the
\* current input, clears isPending and leaves no timer armed, so that the
\* cancelled timer cannot run afterwards.
C18_Flush ==
  [][(lastOp' = "flush" /\ mounted /\ PendingUpdate) =>
       /\ debouncedValue' = value
       /\ ~isPending'
       /\ timers' = {}
       /\ cleared' = timers]_vars

\* flush has disarmed a timer and put the new input in place of the old
\* debounced value
C18_Witness ==
  /\ lastOp = "flush"
  /\ mounted
  /\ cleared # {}
  /\ \A t \in cleared : t.left > 0
  /\ previous # debouncedValue
  /\ debouncedValue = value
  /\ ~isPending
  /\ timers = {}

(***************************************************************************)
(* C19  useAdvancedDebounce.cancel.                                        *)
(***************************************************************************)
\* C19: cancel called while an update is pending clears isPending, keeps
\* debouncedValue and leaves no timer armed; while no timer is armed only
\* flush changes debouncedValue, and only a change of value or delay arms
\* a timer again.
C19_Cancel ==
  [][/\ (lastOp' = "cancel" /\ mounted /\ PendingUpdate) =>
          /\ ~isPending'
          /\ debouncedValue' = debouncedValue
          /\ timers' = {}
     /\ (timers = {} /\ debouncedValue' # debouncedValue) => lastOp' = "flush"
     /\ (timers = {} /\ timers' # {}) => (value' # value \/ delay' # delay)
    ]_vars

\* cancel has disarmed the timer of an update to a new input; the old
\* debounced value is still returned
C19_Witness ==
  /\ lastOp = "cancel"
  /\ mounted
  /\ cleared # {}
  /\ ~isPending
  /\ timers = {}
  /\ debouncedValue # value

(***************************************************************************)
(* C20  useDebouncedCallback.                                              *)
(***************************************************************************)
\* C20: the callback runs only in a timer callback whose delay has run
\* since the most recent call, at most once for the calls made since it
\* last ran, with the arguments of the last of them, and no timer of an
\* earlier call stays armed.
C20_LastCallWins ==
  [][lastOp' = "timeout" =>
       /\ invoked = <<>>
       /\ calls # <<>>
       /\ invoked' = <<[callback |-> callbackRef,
                        args |-> calls[Len(calls)]]>>
       /\ \A t \in timers \ timers' : elapsed >= t.delay
       /\ timers' = {}]_vars

\* two calls with different arguments, then the callback ran once with the
\* arguments of the second
C20_Witness ==
  /\ lastOp = "timeout"
  /\ Len(calls) = 2
  /\ calls[1] # calls[2]
  /\ invoked = <<[callback |-> callbackRef, args |-> calls[2]]>>
  /\ elapsed >= 1
  /\ timers = {}

(***************************************************************************)
(* C21  useLayout and useActiveTheme.                                      *)
(***************************************************************************)
ProviderOf(hook) ==
  IF hook = "useLayout" THEN "LayoutProvider" ELSE "ActiveThemeProvider"

ErrorOf(hook) ==
  IF hook = "useLayout"
  THEN "useLayout must be used within a LayoutProvider"
  ELSE "useActiveTheme must be used within an ActiveThemeProvider"

\* position i holds the provider of that kind nearest to the component
NearestIs(kind, i) ==
  /\ ancestors[i].kind = kind
  /\ \A j \in (i + 1)..Len(ancestors) : ancestors[j].kind # kind

\* C21: a call of useLayout or useActiveTheme throws its Error when no
\* matching provider is above the component, and otherwise returns exactly
\* the value of the nearest matching provider.
C21_ContextHooks ==
  \A hook \in ContextHooks :
    called[hook] # <<>> =>
      LET outcome == called[hook][1]
          kind == ProviderOf(hook)
      IN IF \A i \in 1..Len(ancestors) : ancestors[i].kind # kind
         THEN /\ outcome.threw
              /\ outcome.error = ErrorOf(hook)
              /\ outcome.value = <<>>
         ELSE /\ ~outcome.threw
              /\ \E i \in 1..Len(ancestors) :
                   /\ NearestIs(kind, i)
                   /\ outcome.value = <<ContextValue(ancestors[i], i)>>

\* under two LayoutProviders with different layouts useLayout returned the
\* inner one's value, and useActiveTheme threw
C21_Witness ==
  /\ Len(ancestors) = 2
  /\ ancestors[1].kind = "LayoutProvider"
  /\ ancestors[2].kind = "LayoutProvider"
  /\ ancestors[1].layout # ancestors[2].layout
  /\ called["useLayout"] # <<>>
  /\ called["useLayout"][1].value
       = <<[layout |-> ancestors[2].layout, setLayout |-> 2]>>
  /\ called["useActiveTheme"] # <<>>
  /\ called["useActiveTheme"][1].threw

(***************************************************************************)
(* C22  createCustomSpring and getSpring.                                  *)
(***************************************************************************)
\* the latest call was fn(name, ..)
SpringCalled(fn) == springCall # <<>> /\ springCall[1].fn = fn

\* the six triples of the source, mass in tenths
SpringTable ==
  << <<"land", 400, 28, 8>>, <<"drag", 340, 26, 9>>,
     <<"ripple", 450, 45, 7>>, <<"magnetism", 450, 50, 8>>,
     <<"cluster", 340, 38, 14>>, <<"growth", 360, 42, 11>> >>

\* the triple the source gives the spring called name
BaseValue(name, key) ==
  LET row == CHOOSE i \in 1..Len(SpringTable) : SpringTable[i][1] = name
  IN IF key = "stiffness" THEN SpringTable[row][2]
     ELSE IF key = "damping" THEN SpringTable[row][3]
     ELSE SpringTable[row][4]

\* C22: createCustomSpring(base, overrides) returns a configuration whose
\* stiffness, damping and mass are the override where one is given and the
\* base spring's value otherwise; with empty overrides it equals
\* getSpring(base), which is SPRINGS[base]; no call changes the table.
C22_CustomSpring ==
  /\ \A name \in SpringName : \A key \in SpringKeys :
       springs[name][key] = BaseValue(name, key)
  /\ SpringCalled("createCustomSpring") =>
       LET base == springCall[1].name
           overrides == springCall[1].overrides
           result == springResult[1]
       IN /\ DOMAIN result = SpringKeys
          /\ \A key \in SpringKeys :
               result[key] = (IF key \in DOMAIN overrides
                              THEN overrides[key]
                              ELSE BaseValue(base, key))
          /\ overrides = <<>> =>
               /\ result = getSpring(springs, base)
               /\ result = SPRINGS[base]
  /\ SpringCalled("getSpring") =>
       /\ springResult[1] = SPRINGS[springCall[1].name]
       /\ \A key \in SpringKeys :
            springResult[1][key] = BaseValue(springCall[1].name, key)

\* createCustomSpring("land", {stiffness: 500, damping: 30}) kept land's
\* mass and left the table alone
C22_Witness ==
  /\ SpringCalled("createCustomSpring")
  /\ springCall[1].name = "land"
  /\ DOMAIN springCall[1].overrides = {"stiffness", "damping"}
  /\ springResult = <<[stiffness |-> 500, damping |-> 30, mass |-> 8]>>
  /\ springs["land"] = [stiffness |-> 400, damping |-> 28, mass |-> 8]

(***************************************************************************)
(* C23  Termination and the terminal outcomes.                             *)
(***************************************************************************)
\* the summary was reached, so the exit is one of its three process.exit
SummaryReached == tally # NoTally

\* exit 1 before any file is looked for
EarlyConfigurationFailure ==
  /\ ~rootExists
  /\ exitCode = 1
  /\ componentFiles = <<>>
  /\ allViolations = <<>>
  /\ ~SummaryReached

ValidationFailure ==
  /\ rootExists
  /\ SummaryReached
  /\ exitCode = 1
  /\ HasSeverity(allViolations, "error")

ValidationSuccess ==
  /\ rootExists
  /\ SummaryReached
  /\ exitCode = 0
  /\ ~HasSeverity(allViolations, "error")

\* exit 1 from main().catch, the summary never reached
FatalError ==
  /\ rootExists
  /\ ~SummaryReached
  /\ exitCode = 1
  /\ ReportWriteFails
  /\ stderr # <<>>
  /\ stderr[Len(stderr)] = "Fatal error:"

ExactlyOne(outcomes) ==
  Cardinality({i \in 1..Len(outcomes) : outcomes[i]}) = 1

\* C23 as stated: every run terminates, in exactly one of the three
\* outcomes early configuration failure, validation failure, validation
\* success or warning-only.
C23_Original ==
  /\ <>(pc = "exited")
  /\ [](pc = "exited" =>
          ExactlyOne(<<EarlyConfigurationFailure, ValidationFailure,
                       ValidationSuccess>>))

\* C23 amended: every run terminates, in exactly one of four outcomes:
\* those three, or a fatal error (exit 1 from main().catch when the report
\* asked for cannot be written, whatever violations were collected).
C23_Amended ==
  /\ <>(pc = "exited")
  /\ [](pc = "exited" =>
          ExactlyOne(<<EarlyConfigurationFailure, ValidationFailure,
                       ValidationSuccess, FatalError>>))

\* a run without any blocking violation that ended in main().catch
C23_Witness ==
  /\ pc = "exited"
  /\ FatalError
  /\ componentFiles # <<>>
  /\ ~HasSeverity(allViolations, "error")

(***************************************************************************)
(* C24: if a rule's check throws while a file is validated, the throwing   *)
(* rule yields no violation, the error is logged, validateFile returns     *)
(* (the run goes on), and every other rule of the table is still evaluated *)
(* against the file: a rule that fails there yields its violation, a rule  *)
(* that passes yields none.                                                *)
(***************************************************************************)
Reported(r, k) ==
  \E i \in 1..Len(r.violations) :
     r.violations[i].pattern = PATTERN_CHECKS[k].name

RuleThrows == \E k \in DOMAIN ruleOutcome : ruleOutcome[k] = "throws"

AtMostOneTimer == Cardinality(timers) <= 1

QuietAfterUnmount ==
  ~mounted =>
    /\ lastOp' # "timeout"
    /\ debouncedValue' = debouncedValue
    /\ timers' = {}

C25_OneTimerAndCleanup ==
  /\ [](AtMostOneTimer /\ (~mounted => timers = {}))
  /\ [][QuietAfterUnmount]_vars

\* the component was unmounted while an update was pending, and time went on
C25_Witness ==
  /\ ~mounted
  /\ value # debouncedValue
  /\ elapsed > 0
  /\ lastOp = "tick"

DueNowFor(v) == \E t \in timers : t.left = 0 /\ t.captured = v

C28_IsPending ==
  /\ mounted => (isPending <=> PendingUpdate)
  /\ ~mounted => ~PendingUpdate

\* a timer armed by a later render has fired and isPending went back to false
C28_Witness ==
  /\ mounted
  /\ lastOp = "timeout"
  /\ ~isPending
  /\ timeoutRef > 1
  /\ previous # debouncedValue

(***************************************************************************)
(* C29: useDebouncedCallback.  When a pending timer fires it invokes the   *)
(* callback most recently passed to the hook, not the one that was current *)
(* when the call was made; and once the component is unmounted the         *)
(* callback is never invoked.                                              *)
(***************************************************************************)
InvokesLatestCallback ==
  lastOp' = "timeout" =>
    /\ invoked' # <<>>
    /\ invoked'[1].callback = callbackRef

C29_Original ==
  [][/\ InvokesLatestCallback
     /\ ~mounted => lastOp' # "timeout"]_vars

(***************************************************************************)
(* C29 as amended: a firing timer invokes the callback most recently       *)
(* passed to the hook; unmounting clears whatever call was pending, so no  *)
(* call made before the unmount invokes the callback after it.  A timer    *)
(* that fires after the unmount was armed by a call made after it.         *)
(***************************************************************************)
C29_LatestCallbackAndCleanup ==
  [][/\ InvokesLatestCallback
     /\ (mounted /\ ~mounted') => timers' = {}
     /\ (~mounted /\ timers = {} /\ timers' # {}) => lastOp' = "call"]_vars

\* a call was made, a later render passed another callback, the timer fired
C29_Witness ==
  /\ lastOp = "timeout"
  /\ mounted
  /\ invoked # <<>>
  /\ invoked[1].callback = callbackRef
  /\ previous # callbackRef

(***************************************************************************)
(* C26: LayoutProvider.  Once the sync effect has run for the current      *)
(* layout, after any sequence of setLayout calls, the document root        *)
(* carries exactly one of layout-default, layout-fixed and layout-fluid,   *)
(* and it is the class of the current layout: no class of a layout         *)
(* selected before remains.                                                *)
(***************************************************************************)
C26_OneLayoutClass ==
  ~SyncPending =>
    classList \cap {"layout-default", "layout-fixed", "layout-fluid"}
      = {"layout-" \o layout}

\* the effect ran for one layout and then for another, on a root that also
\* carries a class of its own
C26_Witness ==
  /\ ~SyncPending
  /\ Len(synced) = 2
  /\ synced[1] # synced[2]
  /\ "dark" \in classList

(***************************************************************************)
(* C30: within one run the severity tallies agree: the counts of the       *)
(* console summary, the errors and warnings fields of the report file and  *)
(* the counts main chooses the exit code by are the same numbers, so the   *)
(* exit code is 1 exactly when the reported error count is above 0.        *)
(***************************************************************************)
ConsoleTotals(e, w) ==
  "Total: " \o ToString(e) \o " error(s), " \o ToString(w)
  \o " warning(s)\n"

TalliesAgree ==
  /\ (Formatted /\ allViolations # <<>>) =>
       EndsWith(fmt.text, ConsoleTotals(Len(fmt.errors), Len(fmt.warnings)))
  /\ SummaryReached =>
       /\ tally.errors = Len(fmt.errors)
       /\ tally.warnings = Len(fmt.warnings)
  /\ ReportOfThisRun =>
       /\ reportFile[1].errors = Len(fmt.errors)
       /\ reportFile[1].warnings = Len(fmt.warnings)

C30_Original ==
  /\ TalliesAgree
  /\ (pc = "exited" /\ Formatted) => (exitCode = 1 <=> Len(fmt.errors) > 0)

(***************************************************************************)
(* C30 as amended: the tallies agree, and a run that reaches the final     *)
(* summary exits with 1 exactly when the reported error count is above 0;  *)
(* a run that printed its counts and then failed to write the report       *)
(* exits with 1 whatever the counts are.                                   *)
(***************************************************************************)
C30_TalliesAgree ==
  /\ TalliesAgree
  /\ (pc = "exited" /\ SummaryReached) =>
       (exitCode = 1 <=> Len(fmt.errors) > 0)
  /\ (pc = "exited" /\ Formatted /\ ~SummaryReached) =>
       (ReportWriteFails /\ exitCode = 1)

\* a run with violations of both severities wrote its report and exited
C30_Witness ==
  /\ pc = "exited"
  /\ SummaryReached
  /\ ReportOfThisRun
  /\ tally.errors > 0
  /\ tally.warnings > 0
  /\ exitCode = 1
====
